---- MODULE Spec2Model ----
(***************************************************************************)
(* Order-lifecycle workflow driver of the k6 load-testing harness          *)
(* (src/src/scenarios/order-lifecycle-test.js, default function) with the  *)
(* payload generators it calls (src/src/data/test-data.js) and the         *)
(* response decoding of src/unnamed/part_003 (utils/helpers.js).           *)
(*                                                                         *)
(* One execution of the default function by one virtual user is modelled.  *)
(* Every HTTP call is a suspension point: one action is one call, the      *)
(* nondeterministic response of the backend, and the code that runs on     *)
(* that response up to the next call.  sleep() changes no state.           *)
(***************************************************************************)
EXTENDS Integers, Sequences, FiniteSets, TLC

VARIABLES
    pc,                   \* position of the default function
    calls,                \* HTTP calls issued so far, in order
    customerId, orderId, menuSharingCode, paymentOrderId, lifecycleSuccess,
    deliveryId, channelOrderId, baseTime, logs, allSuccess, cbIdx, delivered,
    lifecycleSuccessRate, loginSuccessRate, orderSuccessRate,
    paymentSuccessRate, posSuccessRate, deliverySuccessRate,
    totalLifecycleTime, ordersCompleted, ordersDelivered,
    otpRes, verifyRes, orderRes, payRes, getRes,   \* responses received
    cbRes,                \* statuses answered to the delivery callbacks
    sent,                 \* delivery callback payloads POSTed, in order
    addressId,            \* the address variant's Phase 3 local
    addrListRes, addrCreateRes,  \* responses of GET /address and POST /address
    RESTAURANT_ID,        \* CONFIG.RESTAURANT_ID
    ORDER_COUNT,          \* CONFIG.ORDER_COUNT
    setupState,           \* setup(): not run yet, returned, or thrown
    iterationsStarted,    \* executions of the default function started
    activeVUs,            \* executions in progress
    iterationsCompleted,  \* executions that returned
    iterationsInterrupted,  \* executions cut off at maxDuration
    maxDurationReached,   \* the scenario's maxDuration has elapsed
    vu,                   \* the locals of each of several concurrent VUs
    menuData,             \* the menu snapshot the generators are given
    fetchedMenu,          \* the menu snapshot as setup() returned it
    orderPayload,         \* what the last call of an order generator returned
    draftLocals,          \* subtotal and taxAmount of that call
    updateArgs,           \* arguments of the last generateOrderStatusUpdate call
    updatePayload,        \* what that call returned
    fulfillAt,            \* place in the fulfillment sequence of the last callback
    heldLogs,             \* the log history the caller of the generator holds
    callbackArgs,         \* status and previousLogs of the last generator call
    passedLogs,           \* the array passed as previousLogs, after the call
    generated,            \* what generateDeliveryCallback returned
    now,                  \* Date.now() of the OTP mock, in minutes
    requestCount,         \* requestCount of the OTP mock
    otpStore,             \* otpStore of the OTP mock: mobile -> entry
    verifyAnswer,         \* the last answer of its verify-by-mobile endpoint
    flow,                 \* which order flow the execution belongs to
    flowPc,               \* its position in that flow
    flowCalls,            \* the HTTP calls it issued, in order
    flowOrderStatus,      \* status of the response to its order POST
    flowOrderId,          \* its local orderId
    flowPaymentOrderId,   \* its local paymentOrderId
    flowSamples,          \* the samples it added to counters and rates
    singlePc,             \* position of the single-order default function
    singleCalls,          \* the HTTP calls it issued from Step 6 on, in order
    singleDeliveryId,     \* its local deliveryId
    singleChannelOrderId, \* channelOrderId of its Step 6
    singleBaseTime,       \* baseTime of its Step 6
    singleLogs,           \* logs of its Step 6
    singleAllSuccess,     \* allSuccess of its Step 6
    singleCbIdx,          \* statuses of the sequence its loop has been through
    singleStepSuccess,    \* samples it added to step_success_rate from Step 6 on
    singleDeliveryRes,    \* deliveryRes of its Step 6
    mixedTest,            \* which mixed-scenario test runs in sanity mode
    mixedOrderIds,        \* data.orderIds handed on by its setup
    mixedIteration,       \* iterations of its one VU started so far
    mixedRan,             \* the traffic variant each iteration executed
    loginFlowPc,          \* position of the login stress default function
    loginFlowCalls,       \* the HTTP calls of its current iteration, in order
    otpStatus,            \* status answered to the OTP request of the current iteration
    loginFlowCustomerId,  \* its local customerId
    loginFlowSuccess,     \* its local loginSuccess
    loginFlowRate,        \* the samples of login_success_rate
    loginsCompleted,      \* the counter logins_completed
    loginsFailed,         \* the counter logins_failed
    loginsFinished,       \* iterations of the login stress VU that returned
    stressOrderIds,       \* data.orderIds handed on by setup of the stress test
    stressRan,            \* the operation each iteration of the stress VU executed
    successRate,          \* the samples of success_rate
    errorRate,            \* the samples of error_rate
    requestsPerSecond,    \* number of samples of requests_per_second
    timeouts,             \* the counter timeouts
    ordersAttempted,      \* the counter orders_attempted
    ordersSucceeded,      \* the counter orders_succeeded
    ordersFailed,         \* the counter orders_failed
    userPool,             \* the user pool generateUserPool built
    actors,               \* how many actors (VU ids 1..actors) run concurrently
    actorUser             \* the user each started actor got from getUserFromPool

vars == <<pc, calls, customerId, orderId, menuSharingCode, paymentOrderId,
          lifecycleSuccess, deliveryId, channelOrderId, baseTime, logs,
          allSuccess, cbIdx, delivered, lifecycleSuccessRate, loginSuccessRate,
          orderSuccessRate, paymentSuccessRate, posSuccessRate,
          deliverySuccessRate, totalLifecycleTime, ordersCompleted,
          ordersDelivered, otpRes, verifyRes, orderRes, payRes, getRes,
          cbRes, sent, addressId, addrListRes, addrCreateRes,
          RESTAURANT_ID, ORDER_COUNT, setupState, iterationsStarted, activeVUs,
          iterationsCompleted, iterationsInterrupted, maxDurationReached, vu,
          menuData, fetchedMenu, orderPayload, draftLocals,
          updateArgs, updatePayload, fulfillAt, heldLogs, callbackArgs,
          passedLogs, generated, now, requestCount, otpStore, verifyAnswer,
          flow, flowPc, flowCalls, flowOrderStatus, flowOrderId,
          flowPaymentOrderId, flowSamples,
          singlePc, singleCalls, singleDeliveryId, singleChannelOrderId, singleBaseTime, singleLogs, singleAllSuccess, singleCbIdx, singleStepSuccess, singleDeliveryRes,
          mixedTest, mixedOrderIds, mixedIteration, mixedRan,
          loginFlowPc, loginFlowCalls, otpStatus, loginFlowCustomerId, loginFlowSuccess, loginFlowRate, loginsCompleted, loginsFailed, loginsFinished,
          stressOrderIds, stressRan, successRate, errorRate, requestsPerSecond, timeouts, ordersAttempted, ordersSucceeded, ordersFailed,
          userPool, actors, actorUser>>

(***************************************************************************)
(* Bounds                                                                  *)
(***************************************************************************)
\* new Date() at the start of Phase 9 is one of 0..MaxBaseTime (ms)
MaxBaseTime == 1
\* largest CONFIG.ORDER_COUNT of a run in multi mode
MaxOrderCount == 51
\* concurrent VUs followed with their locals, and iterations each may run
NumVUs == 2
MaxIterations == 2
\* the OTP mock is followed for MaxNow minutes, and its request counter up
\* to MaxRequests
MaxNow == 15
MaxRequests == 3
\* user pools of up to MaxPoolSize users, and up to MaxActors concurrent actors
MaxPoolSize == 4
MaxActors == 4

(***************************************************************************)
(* JavaScript values                                                       *)
(***************************************************************************)
Undefined == "<undefined>"
Null == "<null>"

\* !!v for the values that occur: undefined, null and '' are falsy
Truthy(v) == v \notin {Undefined, Null, ""}

\* a || b
Or(a, b) == IF Truthy(a) THEN a ELSE b

(***************************************************************************)
(* Responses.  A body is what JSON.parse makes of it:                      *)
(*   invalid : JSON.parse throws, or parses to null (a timed-out request   *)
(*             has body null), so that body.data throws inside the try     *)
(*   nodata  : an object without a data field                              *)
(*   array   : data is the array elems                                     *)
(*   object  : data is the object elems[1]                                 *)
(***************************************************************************)
Fields(id, msc, pid, st) ==
    [id |-> id, menuSharingCode |-> msc, paymentOrderId |-> pid, status |-> st]

InvalidBody == [kind |-> "invalid", elems |-> <<>>]
NoDataBody == [kind |-> "nodata", elems |-> <<>>]
ArrayBody(es) == [kind |-> "array", elems |-> es]
ObjectBody(e) == [kind |-> "object", elems |-> <<e>>]

Response(status, body) == [status |-> status, body |-> body]

\* a request that hit CONFIG.REQUEST_TIMEOUT: status 0, no body
TimedOut == Response(0, InvalidBody)

NoRes == Response(-1, InvalidBody)

\* body.data?.[0]?.f
DataFirst(body, f) ==
    IF body.kind = "array" /\ Len(body.elems) > 0
    THEN body.elems[1][f] ELSE Undefined

\* body.data?.f
DataOwn(body, f) ==
    IF body.kind = "object" THEN body.elems[1][f] ELSE Undefined

\* mutant: only body.data?.f is read
DataField_OwnOnly(body, f) == DataOwn(body, f)

\* body.data?.[0]?.f || body.data?.f
DataField(body, f) == Or(DataFirst(body, f), DataOwn(body, f))

\* extractId(res): the bodies of the model carry neither _id nor a top-level id
extractId(res) ==
    IF res.body.kind = "invalid" THEN Null
    ELSE IF res.body.kind = "array" /\ Len(res.body.elems) > 0
         THEN Or(res.body.elems[1].id, Undefined)
         ELSE Or(DataOwn(res.body, "id"), Undefined)

(***************************************************************************)
(* Backend answers                                                         *)
(***************************************************************************)
\* statuses of a call whose response only feeds a check(): success, client
\* and server errors, not found, timeout
Statuses == {0, 200, 401, 404, 500}

CustomerIds == {"c1"}
OrderIds == {"o1"}
PaymentOrderIds == {"p1"}
MenuSharingCodes == {"m1"}

NoFields == Fields(Undefined, Undefined, Undefined, Undefined)

\* bodies that yield nothing: unparsable, no data field, an empty array, an
\* object without the field
EmptyBodies == {InvalidBody, NoDataBody, ArrayBody(<<>>), ObjectBody(NoFields)}

\* POST /login/verify-otp answers with data[0].id or data.id (either shape),
\* whatever the status; an id may be empty
VerifyOtpResponses ==
    {Response(s, b) :
        s \in {200, 401},
        b \in EmptyBodies
              \cup {ArrayBody(<<Fields(c, Undefined, Undefined, Undefined)>>) :
                      c \in CustomerIds}
              \cup {ObjectBody(Fields(c, Undefined, Undefined, Undefined)) :
                      c \in CustomerIds \cup {""}}}
    \cup {TimedOut}

\* POST /order answers with an array of the created order
OrderResponses ==
    {Response(s, b) :
        s \in {200, 500},
        b \in EmptyBodies
              \cup {ArrayBody(<<Fields(o, m, Undefined, "CREATED")>>) :
                      o \in OrderIds, m \in MenuSharingCodes}}
    \cup {TimedOut}

\* POST /payment/{orderId} answers with data[0].paymentOrderId
PaymentResponses ==
    {Response(s, b) :
        s \in {200, 500},
        b \in EmptyBodies
              \cup {ArrayBody(<<Fields(Undefined, Undefined, p, Undefined)>>) :
                      p \in PaymentOrderIds}}
    \cup {TimedOut}

\* order status strings the backend may report
OrderStatusStrings == {"DELIVERED", "delivered", "DELIVERED_LATE", "PAID"}

\* GET /order/{id}: the order with its status, found or not
OrderGetResponses ==
    {Response(200, b) :
        b \in {InvalidBody, NoDataBody,
               ArrayBody(<<Fields("o1", Undefined, Undefined, "DELIVERED")>>)}
              \cup {ObjectBody(Fields("o1", Undefined, Undefined, st)) :
                      st \in OrderStatusStrings}}
    \cup {Response(404, b) :
        b \in {NoDataBody,
               ObjectBody(Fields("o1", Undefined, Undefined, "DELIVERED"))}}
    \cup {TimedOut}

AddressIds == {"a1", "a2"}
CreatedAddressIds == {"n1"}

\* an address as the backend lists it: its id under id or under _id
Address(id, uid, isDefault) == [id |-> id, _id |-> uid, isDefault |-> isDefault]

\* GET /address?customerId=..: 200 with the customer's addresses (none, one,
\* or two with the second as default; the ids under id or under _id), 404
\* when the customer has none, or a timeout
AddressListResponses ==
    {Response(200, ArrayBody(as)) :
        as \in {<< >>,
                <<Address("a1", Undefined, FALSE)>>,
                <<Address("a1", Undefined, FALSE), Address("a2", Undefined, TRUE)>>,
                <<Address(Undefined, "a1", FALSE), Address(Undefined, "a2", TRUE)>>}}
    \cup {Response(404, NoDataBody), TimedOut}

\* POST /address: 200 with the created address (an object), 200 without
\* data, or a server error
AddressCreateResponses ==
    {Response(200, ObjectBody(Address(n, Undefined, TRUE))) : n \in CreatedAddressIds}
    \cup {Response(200, NoDataBody), Response(500, NoDataBody)}

\* statuses answered to a delivery callback
CallbackStatuses == {200, 500}

\* Math.floor(100000 + Math.random() * 900000): the ends of the range
ChannelOrderIds == {100000, 999999}
\* `${Date.now()}${Math.random().toString(36)...}`
DeliveryIds == {"D1"}
BaseTimes == 0..MaxBaseTime

(***************************************************************************)
(* Payload generators (src/src/data/test-data.js)                          *)
(***************************************************************************)
\* a JavaScript value as String() sees it: its type, and the text String()
\* gives for it
JsString(s) == [type |-> "string", text |-> s]
JsNumber(n) == [type |-> "number", text |-> ToString(n)]
JsNull == [type |-> "null", text |-> "null"]
JsUndefined == [type |-> "undefined", text |-> "undefined"]

\* mutant: the value is passed on as it is
String_AsIs(v) == v

\* String(v)
String(v) == JsString(v.text)

\* String(n) of a number: its decimal digits
NumberToString(n) ==
    CASE n = 100000 -> "100000"
      [] n = 999999 -> "999999"

ORDER_LIFECYCLE_ACCEPTED == "ACCEPTED"
ORDER_LIFECYCLE_READY_FOR_DELIVERY == "READY_FOR_DELIVERY"

statusMap == [ACCEPTED |-> "3", READY_FOR_DELIVERY |-> "5"]

generateOrderStatusUpdate(msc, oid, status) ==
    LET statusCode == IF status \in DOMAIN statusMap
                      THEN Or(statusMap[status], status) ELSE status
    IN [restID |-> msc, orderID |-> String(oid), status |-> statusCode,
        minimum_prep_time |-> 15, minimum_delivery_time |-> ""]

\* mutant: the six-stage sequence of getDeliveryStatusSequence
DELIVERY_STATUS_SEQUENCE_SixStage ==
    <<"OUT_FOR_PICKUP", "REACHED_PICKUP", "PICKED_UP", "OUT_FOR_DELIVERY",
      "REACHED_DELIVERY", "DELIVERED">>

DELIVERY_STATUS_SEQUENCE ==
    <<"CREATED", "OUT_FOR_PICKUP", "PICKED_UP", "OUT_FOR_DELIVERY", "DELIVERED">>

STATUS_REMARKS ==
    [CREATED |-> Null, OUT_FOR_PICKUP |-> "Start for Pickup",
     PICKED_UP |-> "admin quick scan", OUT_FOR_DELIVERY |-> "Start for Delivery",
     DELIVERED |-> Null]

\* Date.toISOString(): the instant t (ms) written as fields, most significant
\* first; ISO strings order as these tuples do
toISOString(t) == <<t \div 60000, t % 60000>>

\* lexicographic order of two ISO strings
IsoLess(a, b) == a[1] < b[1] \/ (a[1] = b[1] /\ a[2] < b[2])
IsoLeq(a, b) == a = b \/ IsoLess(a, b)

generateDeliveryCallback(oid, deliveryOrderId, chOrderId, fulfillmentStatus, previousLogs, base, minutesOffset) ==
    LET currentTime == base + minutesOffset * 60 * 1000
        timestamp == toISOString(currentTime)
        status == IF fulfillmentStatus = "DELIVERED" THEN "completed" ELSE "fulfilled"
        location == [latitude |-> "28.442554", longitude |-> "77.08023"]
        rider == [id |-> "306", name |-> "Rider name", mobile |-> "8887772221"]
        channel == [name |-> "captive", id |-> "-2", order_id |-> NumberToString(chOrderId)]
        currentLog ==
            IF fulfillmentStatus # "CREATED"
            THEN [timestamp |-> timestamp, status |-> fulfillmentStatus,
                  channel |-> channel, attemptType |-> "FORWARD",
                  location |-> location, rider |-> rider,
                  remark |-> IF fulfillmentStatus \in DOMAIN STATUS_REMARKS
                             THEN STATUS_REMARKS[fulfillmentStatus] ELSE Undefined]
            ELSE [timestamp |-> timestamp, status |-> fulfillmentStatus,
                  channel |-> channel, attemptType |-> "FORWARD"]
        newLogs == previousLogs \o <<currentLog>>
        pickupEta == toISOString(base + 12 * 60 * 1000)
        pickup ==
            IF fulfillmentStatus \in {"PICKED_UP", "OUT_FOR_DELIVERY", "DELIVERED"}
            THEN [eta |-> pickupEta, location |-> location, timestamp |-> timestamp]
            ELSE [eta |-> pickupEta]
        dropEta == toISOString(base + 22 * 60 * 1000)
        drop ==
            IF fulfillmentStatus = "DELIVERED"
            THEN [eta |-> dropEta, location |-> location, timestamp |-> timestamp]
            ELSE [eta |-> dropEta]
        fulfillment ==
            IF fulfillmentStatus # "CREATED"
            THEN [channel |-> channel, logs |-> newLogs, status |-> fulfillmentStatus,
                  pickup |-> pickup, drop |-> drop, rider |-> rider]
            ELSE [channel |-> channel, logs |-> newLogs, status |-> fulfillmentStatus,
                  pickup |-> pickup, drop |-> drop]
        payload ==
            [id |-> String(JsString(deliveryOrderId)),
             dd_channel |-> [name |-> "Hyperapps Testing",
                             order_id |-> String(JsString(oid))],
             reference_id |-> String(JsString(oid)),
             created_at |-> toISOString(base + 1 * 60 * 1000),
             status |-> status,
             updated_at |-> timestamp,
             fulfillment |-> fulfillment]
    IN [payload |-> payload, logs |-> newLogs]

\* mutant: the last status gets the offset of the two before it
statusTimeOffsets_Flat ==
    [CREATED |-> 1, OUT_FOR_PICKUP |-> 3, PICKED_UP |-> 12,
     OUT_FOR_DELIVERY |-> 12, DELIVERED |-> 12]

\* mutant: OUT_FOR_DELIVERY gets an offset below that of PICKED_UP
statusTimeOffsets_Backwards ==
    [CREATED |-> 1, OUT_FOR_PICKUP |-> 3, PICKED_UP |-> 12,
     OUT_FOR_DELIVERY |-> 10, DELIVERED |-> 22]

\* Phase 9: minutes offset of each status
statusTimeOffsets ==
    [CREATED |-> 1, OUT_FOR_PICKUP |-> 3, PICKED_UP |-> 12,
     OUT_FOR_DELIVERY |-> 12, DELIVERED |-> 22]

\* statusTimeOffsets[status] || 0
MinutesOffset(status) ==
    IF status \in DOMAIN statusTimeOffsets /\ statusTimeOffsets[status] # 0
    THEN statusTimeOffsets[status] ELSE 0

(***************************************************************************)
(* The default function of order-lifecycle-test.js                         *)
(***************************************************************************)
\* an HTTP call: method and endpoint, the id in its path or query, and the
\* ids its payload carries
Call(ep, arg, data) == [ep |-> ep, arg |-> arg, data |-> data]

\* an id with the execution it was obtained in (VU and iteration); NoId is a
\* local that is still null
ObtainedId(v, k, kind) == [by |-> v, iteration |-> k, kind |-> kind]
NoId == ObtainedId(0, 0, "none")
HasId(id) == id.kind # "none"

VUs == 1..NumVUs

\* let customerId = null; let orderId = null; let paymentOrderId = null; and
\* the ids Phase 9 has not generated yet
NullLocals ==
    [customerId |-> NoId, orderId |-> NoId, paymentOrderId |-> NoId,
     deliveryId |-> NoId, channelOrderId |-> NoId]

\* a VU between two executions of the default function
IdleVU ==
    [pc |-> "idle", iteration |-> 0, locals |-> NullLocals, request |-> {}, cb |-> 0]

\* the locals and metrics when an execution of the default function starts
ExecutionStart ==
    /\ pc = "browseMenu"
    /\ calls = <<>>
    /\ customerId = Null
    /\ orderId = Null
    /\ menuSharingCode = Null
    /\ paymentOrderId = Null
    /\ lifecycleSuccess = FALSE
    /\ deliveryId = Null
    /\ channelOrderId = 0
    /\ baseTime = 0
    /\ logs = <<>>
    /\ allSuccess = TRUE
    /\ cbIdx = 0
    /\ delivered = FALSE
    /\ lifecycleSuccessRate = <<>>
    /\ loginSuccessRate = <<>>
    /\ orderSuccessRate = <<>>
    /\ paymentSuccessRate = <<>>
    /\ posSuccessRate = <<>>
    /\ deliverySuccessRate = <<>>
    /\ totalLifecycleTime = 0
    /\ ordersCompleted = 0
    /\ ordersDelivered = 0
    /\ otpRes = NoRes
    /\ verifyRes = NoRes
    /\ orderRes = NoRes
    /\ payRes = NoRes
    /\ getRes = NoRes
    /\ cbRes = <<>>
    /\ sent = <<>>
    /\ addressId = Null
    /\ addrListRes = NoRes
    /\ addrCreateRes = NoRes

\* let orderPayload; before a generator is called
NoDto == [isNull |-> TRUE, returned |-> FALSE]

\* return null
NullDto == [isNull |-> TRUE, returned |-> TRUE]

\* the locals of a generator call that the returned object does not show
DraftLocals(subtotal, taxAmount) == [subtotal |-> subtotal, taxAmount |-> taxAmount]

NoLocals == DraftLocals(0, 0)

\* fetchMenuData returned null, or setup handed no menuData on
AbsentMenu == [present |-> FALSE, items |-> <<>>, taxes |-> <<>>]

\* no generator has been called and no menu has been fetched
DraftsIdle ==
    /\ menuData = AbsentMenu
    /\ fetchedMenu = AbsentMenu
    /\ orderPayload = NoDto
    /\ draftLocals = NoLocals

\* generateOrderStatusUpdate has not been called
PosUpdateIdle ==
    /\ updateArgs = <<>>
    /\ updatePayload = <<>>

\* generateDeliveryCallback has not been called: let logs = []
CallbacksIdle ==
    /\ fulfillAt = 0
    /\ heldLogs = <<>>
    /\ callbackArgs = <<>>
    /\ passedLogs = <<>>
    /\ generated = <<>>

Mobiles == {"9800000001", "9800000002"}
Otps == {"123456", "654321"}

\* otpStore.get(mobile) of a mobile without entry
NoEntry == [otp |-> Undefined, timestamp |-> -1, verified |-> FALSE]

\* no answer of verify-by-mobile yet
NoAnswer == [Status |-> "", mobile |-> "", at |-> -1, issued |-> -1]

\* the OTP mock has just started: let requestCount = 0; otpStore = new Map()
OtpMockStarted ==
    /\ now = 0
    /\ requestCount = 0
    /\ otpStore = [m \in Mobiles |-> NoEntry]
    /\ verifyAnswer = NoAnswer

OrderFlows == {"user-journey", "order-stress", "stress"}

\* no execution of an order flow is followed
FlowsIdle ==
    /\ flow = "none"
    /\ flowPc = "idle"
    /\ flowCalls = <<>>
    /\ flowOrderStatus = -1
    /\ flowOrderId = Null
    /\ flowPaymentOrderId = Null
    /\ flowSamples = <<>>

SingleOrderIdle ==
    /\ singlePc = "idle"
    /\ singleCalls = <<>>
    /\ singleDeliveryId = Null
    /\ singleChannelOrderId = 0
    /\ singleBaseTime = 0
    /\ singleLogs = <<>>
    /\ singleAllSuccess = TRUE
    /\ singleCbIdx = 0
    /\ singleStepSuccess = <<>>
    /\ singleDeliveryRes = NoRes

MixedIdle ==
    /\ mixedTest = "none"
    /\ mixedOrderIds = <<>>
    /\ mixedIteration = 0
    /\ mixedRan = <<>>

LoginFlowIdle ==
    /\ loginFlowPc = "idle"
    /\ loginFlowCalls = <<>>
    /\ otpStatus = -1
    /\ loginFlowCustomerId = Null
    /\ loginFlowSuccess = FALSE
    /\ loginFlowRate = <<>>
    /\ loginsCompleted = 0
    /\ loginsFailed = 0
    /\ loginsFinished = 0

StressIdle ==
    /\ stressOrderIds = <<>>
    /\ stressRan = <<>>
    /\ successRate = <<>>
    /\ errorRate = <<>>
    /\ requestsPerSecond = 0
    /\ timeouts = 0
    /\ ordersAttempted = 0
    /\ ordersSucceeded = 0
    /\ ordersFailed = 0

UserPoolIdle ==
    /\ userPool = <<>>
    /\ actors = 0
    /\ actorUser = <<>>

\* the components modelled on their own are idle
StandaloneIdle ==
    DraftsIdle /\ PosUpdateIdle /\ CallbacksIdle /\ OtpMockStarted /\ FlowsIdle /\ SingleOrderIdle /\ MixedIdle /\ LoginFlowIdle /\ StressIdle /\ UserPoolIdle

\* one execution of the default function by one VU, in a run whose setup()
\* returned
Init ==
    /\ ExecutionStart
    /\ StandaloneIdle
    /\ RESTAURANT_ID = "r1"
    /\ ORDER_COUNT = 1
    /\ setupState = "returned"
    /\ iterationsStarted = 1
    /\ activeVUs = 1
    /\ iterationsCompleted = 0
    /\ iterationsInterrupted = 0
    /\ maxDurationReached = FALSE
    /\ vu = [v \in VUs |-> IdleVU]

ids == <<customerId, orderId, menuSharingCode, paymentOrderId>>
phase9 == <<deliveryId, channelOrderId, baseTime, logs, allSuccess, cbIdx, cbRes, sent>>
phase10 == <<delivered, lifecycleSuccess>>
phaseRates == <<loginSuccessRate, orderSuccessRate, paymentSuccessRate,
                posSuccessRate, deliverySuccessRate>>
lifecycleMetrics == <<lifecycleSuccessRate, totalLifecycleTime>>
counters == <<ordersCompleted, ordersDelivered>>
responses == <<otpRes, verifyRes, orderRes, payRes, getRes>>
phase3 == <<addressId, addrListRes, addrCreateRes>>
config == <<RESTAURANT_ID, ORDER_COUNT>>
scheduler == <<setupState, iterationsStarted, activeVUs, iterationsCompleted,
               iterationsInterrupted, maxDurationReached>>
\* what a step of the one execution followed by Init leaves alone
outside == <<config, scheduler, vu>>
drafts == <<menuData, fetchedMenu, orderPayload, draftLocals>>
posUpdate == <<updateArgs, updatePayload>>
callbacks == <<fulfillAt, heldLogs, callbackArgs, passedLogs, generated>>
otpMock == <<now, requestCount, otpStore, verifyAnswer>>
orderFlows == <<flow, flowPc, flowCalls, flowOrderStatus, flowOrderId,
                flowPaymentOrderId, flowSamples>>
singleOrder == <<singlePc, singleCalls, singleDeliveryId, singleChannelOrderId, singleBaseTime, singleLogs, singleAllSuccess, singleCbIdx, singleStepSuccess, singleDeliveryRes>>
mixed == <<mixedTest, mixedOrderIds, mixedIteration, mixedRan>>
loginFlow == <<loginFlowPc, loginFlowCalls, otpStatus, loginFlowCustomerId, loginFlowSuccess, loginFlowRate, loginsCompleted, loginsFailed, loginsFinished>>
stress == <<stressOrderIds, stressRan, successRate, errorRate, requestsPerSecond, timeouts, ordersAttempted, ordersSucceeded, ordersFailed>>
userPools == <<userPool, actors, actorUser>>
standalone == <<drafts, posUpdate, callbacks, otpMock, orderFlows, singleOrder, mixed, loginFlow, stress, userPools>>

\* mutant: an early return that records the rate but not the duration
RecordLifecycle_NoDuration(success) ==
    /\ lifecycleSuccessRate' = Append(lifecycleSuccessRate, IF success THEN 1 ELSE 0)
    /\ UNCHANGED totalLifecycleTime
    /\ pc' = "done"

\* lifecycleSuccessRate.add(..); totalLifecycleTime.add(..); return
\* (after Phase 10 the function ends after one more sleep)
RecordLifecycle(success) ==
    /\ lifecycleSuccessRate' = Append(lifecycleSuccessRate, IF success THEN 1 ELSE 0)
    /\ totalLifecycleTime' = totalLifecycleTime + 1
    /\ pc' = "done"

\* Phase 1: GET menu
BrowseMenu ==
    /\ pc = "browseMenu"
    /\ \E status \in Statuses :
         /\ calls' = Append(calls, Call("GET /menu/category", "r1", ""))
         /\ pc' = "browseAddons"
    /\ UNCHANGED <<standalone, outside, phase3, ids, phase10, phase9, phaseRates, lifecycleMetrics,
                   counters, responses>>

\* Phase 1: GET addons
BrowseAddons ==
    /\ pc = "browseAddons"
    /\ \E status \in Statuses :
         /\ calls' = Append(calls, Call("GET /addon-group", "", ""))
         /\ pc' = "loginOtp"
    /\ UNCHANGED <<standalone, outside, phase3, ids, phase10, phase9, phaseRates, lifecycleMetrics,
                   counters, responses>>

\* the 'Customer ID received' check: assigns customerId when the body parses
CustomerIdAfterVerify(res) ==
    IF res.body.kind = "invalid" THEN customerId
    ELSE DataField(res.body, "id")

\* mutants of the gate: no gate at all; only null closes it
LoginGateOpen_None(cid) == TRUE
LoginGateOpen_NullOnly(cid) == cid # Null

\* the gate after Phase 2: if (!customerId) { ...; return; }
LoginGateOpen(cid) == Truthy(cid)

\* Phase 2: POST /login/otp; on a non-200 the group returns, customerId is
\* still null and the function records the failure and returns
LoginOtp ==
    /\ pc = "loginOtp"
    /\ \E status \in Statuses :
         /\ calls' = Append(calls, Call("POST /login/otp", "", "u1"))
         /\ otpRes' = Response(status, InvalidBody)
         /\ IF status # 200
            THEN /\ loginSuccessRate' = Append(loginSuccessRate, 0)
                 /\ IF LoginGateOpen(customerId)
                    THEN /\ pc' = "quote"
                         /\ UNCHANGED lifecycleMetrics
                    ELSE RecordLifecycle(FALSE)
            ELSE /\ pc' = "loginVerify"
                 /\ UNCHANGED <<loginSuccessRate, lifecycleMetrics>>
    /\ UNCHANGED <<standalone, outside, phase3, ids, phase10, phase9, orderSuccessRate,
                   paymentSuccessRate, posSuccessRate, deliverySuccessRate,
                   counters, verifyRes, orderRes, payRes, getRes>>

\* Phase 2: POST /login/verify-otp; check() runs both predicates
LoginVerify ==
    /\ pc = "loginVerify"
    /\ \E res \in VerifyOtpResponses :
         LET cid == CustomerIdAfterVerify(res)
             success == res.status = 200 /\ res.body.kind # "invalid" /\ Truthy(cid)
         IN /\ calls' = Append(calls, Call("POST /login/verify-otp", "", "u1"))
            /\ verifyRes' = res
            /\ customerId' = cid
            /\ loginSuccessRate' = Append(loginSuccessRate, IF success THEN 1 ELSE 0)
            /\ IF LoginGateOpen(cid)
               THEN /\ pc' = "quote"
                    /\ UNCHANGED lifecycleMetrics
               ELSE RecordLifecycle(FALSE)
    /\ UNCHANGED <<standalone, outside, phase3, orderId, menuSharingCode, paymentOrderId, phase10,
                   phase9, orderSuccessRate, paymentSuccessRate, posSuccessRate,
                   deliverySuccessRate, counters, otpRes, orderRes, payRes, getRes>>

\* Phase 3: GET delivery quote (200 and 404 pass the check; nothing depends on it)
DeliveryQuote ==
    /\ pc = "quote"
    /\ \E status \in Statuses :
         /\ calls' = Append(calls, Call("GET /delivery/quote", "r1", "106335"))
         /\ pc' = "createOrder"
    /\ UNCHANGED <<standalone, outside, phase3, ids, phase10, phase9, phaseRates, lifecycleMetrics,
                   counters, responses>>

\* addresses.find(a => a.isDefault)?.id
DefaultAddrId(addresses) ==
    LET defaults == {i \in 1..Len(addresses) : addresses[i].isDefault}
    IN IF defaults = {} THEN Undefined
       ELSE addresses[CHOOSE i \in defaults : \A j \in defaults : i <= j].id

\* Phase 3 (address variant): the address id taken from a 200 list:
\* defaultAddr?.id || addresses[0]?.id || addresses[0]?._id
AddressIdOfList(res) ==
    IF res.body.kind = "array" /\ Len(res.body.elems) > 0
    THEN LET addresses == res.body.elems
         IN Or(Or(DefaultAddrId(addresses), addresses[1].id), addresses[1]._id)
    ELSE addressId

\* Phase 3 (address variant): the id of a created address:
\* body.data?.id || body.data?._id || body.data?.[0]?.id
AddressIdOfCreated(res) ==
    IF res.body.kind = "invalid" THEN addressId
    ELSE IF res.body.kind = "object"
         THEN Or(Or(res.body.elems[1].id, res.body.elems[1]._id), Undefined)
         ELSE IF res.body.kind = "array" /\ Len(res.body.elems) > 0
              THEN Or(Or(Undefined, Undefined), res.body.elems[1].id)
              ELSE Undefined

\* if (!addressId) { addressId = '106335'; }
AddressOrFallback(aid) == IF Truthy(aid) THEN aid ELSE "106335"

\* Phase 3 (address variant): GET /address?customerId=..; with an address
\* found the next call is the quote, otherwise the address create
AddressList ==
    /\ pc = "quote"
    /\ \E res \in AddressListResponses :
         LET aid == IF res.status = 200 THEN AddressIdOfList(res) ELSE addressId
         IN /\ calls' = Append(calls, Call("GET /address", customerId, ""))
            /\ addrListRes' = res
            /\ IF Truthy(aid)
               THEN /\ addressId' = AddressOrFallback(aid)
                    /\ pc' = "addressQuote"
               ELSE /\ addressId' = aid
                    /\ pc' = "addressCreate"
    /\ UNCHANGED <<standalone, outside, addrCreateRes, ids, phase10, phase9, phaseRates,
                   lifecycleMetrics, counters, responses>>

\* Phase 3 (address variant): POST /address, then the fallback
AddressCreate ==
    /\ pc = "addressCreate"
    /\ \E res \in AddressCreateResponses :
         LET aid == IF res.status = 200 THEN AddressIdOfCreated(res) ELSE addressId
         IN /\ calls' = Append(calls, Call("POST /address", "", customerId))
            /\ addrCreateRes' = res
            /\ addressId' = AddressOrFallback(aid)
            /\ pc' = "addressQuote"
    /\ UNCHANGED <<standalone, outside, addrListRes, ids, phase10, phase9, phaseRates,
                   lifecycleMetrics, counters, responses>>

\* Phase 3 (address variant): GET delivery quote for the address chosen
AddressQuote ==
    /\ pc = "addressQuote"
    /\ \E status \in Statuses :
         /\ calls' = Append(calls, Call("GET /delivery/quote", "r1", addressId))
         /\ pc' = "createOrder"
    /\ UNCHANGED <<standalone, outside, phase3, ids, phase10, phase9, phaseRates, lifecycleMetrics,
                   counters, responses>>

\* Phase 4: the order id taken from a 200 response
OrderIdOf(res) ==
    IF res.body.kind = "invalid" THEN extractId(res) ELSE DataField(res.body, "id")

\* mutant: the gate tests the status, not the id
OrderGateOpen_StatusOnly(success, oid) == success

\* the gate after Phase 4: if (!orderId) { ...; return; }
OrderGateOpen(success, oid) == Truthy(oid)

\* what the order payload carries of the workflow's ids: customerId, and
\* deliveryDetails.addressId = options.addressId || '106335'
OrderDraft ==
    [customerId |-> customerId, addressId |-> Or(addressId, "106335")]

\* Phase 4: POST /order
CreateOrder ==
    /\ pc = "createOrder"
    /\ \E res \in OrderResponses :
         LET success == res.status = 200
             oid == IF success THEN OrderIdOf(res) ELSE orderId
             msc == IF success /\ res.body.kind # "invalid"
                    THEN DataField(res.body, "menuSharingCode") ELSE menuSharingCode
         IN /\ calls' = Append(calls, Call("POST /order", "", OrderDraft))
            /\ orderRes' = res
            /\ orderId' = oid
            /\ menuSharingCode' = msc
            /\ ordersCompleted' = IF success THEN ordersCompleted + 1 ELSE ordersCompleted
            /\ orderSuccessRate' =
                 Append(orderSuccessRate, IF success /\ Truthy(oid) THEN 1 ELSE 0)
            /\ IF OrderGateOpen(success, oid)
               THEN /\ pc' = "createPayment"
                    /\ UNCHANGED lifecycleMetrics
               ELSE RecordLifecycle(FALSE)
    /\ UNCHANGED <<standalone, outside, phase3, customerId, paymentOrderId, phase10, phase9,
                   loginSuccessRate, paymentSuccessRate, posSuccessRate,
                   deliverySuccessRate, ordersDelivered, otpRes, verifyRes,
                   payRes, getRes>>

\* Phase 5: the payment order id taken from a 200 response
PaymentOrderIdOf(res) ==
    IF res.body.kind = "invalid" THEN paymentOrderId
    ELSE DataField(res.body, "paymentOrderId")

\* mutant: the gate tests the status, not the id
PaymentGateOpen_StatusOnly(success, pid) == success

\* the gate after Phase 5: if (!paymentOrderId) { ...; return; }
PaymentGateOpen(success, pid) == Truthy(pid)

\* Phase 5: POST /payment/{orderId}
CreatePayment ==
    /\ pc = "createPayment"
    /\ \E res \in PaymentResponses :
         LET success == res.status = 200
             pid == IF success THEN PaymentOrderIdOf(res) ELSE paymentOrderId
         IN /\ calls' = Append(calls, Call("POST /payment", orderId, ""))
            /\ payRes' = res
            /\ paymentOrderId' = pid
            /\ paymentSuccessRate' =
                 Append(paymentSuccessRate, IF success /\ Truthy(pid) THEN 1 ELSE 0)
            /\ IF PaymentGateOpen(success, pid)
               THEN /\ pc' = "verifyPayment"
                    /\ UNCHANGED lifecycleMetrics
               ELSE RecordLifecycle(FALSE)
    /\ UNCHANGED <<standalone, outside, phase3, customerId, orderId, menuSharingCode, phase10, phase9,
                   loginSuccessRate, orderSuccessRate, posSuccessRate,
                   deliverySuccessRate, counters, otpRes, verifyRes, orderRes, getRes>>

\* mutant: a soft phase that aborts the workflow on failure
AfterSoftPhase_Abort(success, next) == IF success THEN next ELSE "done"

\* mutant: a soft phase that is attempted again after a failed response
AfterSoftPhase_Retry(success, next) == IF success THEN next ELSE pc

\* mutant: the delivery callbacks are sent right after the payment verify
AfterSoftPhase_CallbacksFirst(success, next) ==
    IF next = "posAccept" THEN "deliveryCallbacks" ELSE next

\* mutant: the workflow goes from READY_FOR_DELIVERY straight to tracking
AfterSoftPhase_SkipCallbacks(success, next) ==
    IF next = "deliveryCallbacks" THEN "orderGet" ELSE next

\* Phases 6-8 record their outcome and fall through to the next phase
AfterSoftPhase(success, next) == next

\* Phase 6: POST /payment/verify/{orderId}; the workflow goes on either way
VerifyPayment ==
    /\ pc = "verifyPayment"
    /\ \E status \in Statuses :
         /\ calls' = Append(calls, Call("POST /payment/verify", orderId, paymentOrderId))
         /\ paymentSuccessRate' =
              Append(paymentSuccessRate, IF status = 200 THEN 1 ELSE 0)
         /\ pc' = AfterSoftPhase(status = 200, "posAccept")
    /\ UNCHANGED <<standalone, outside, phase3, ids, phase10, phase9, loginSuccessRate, orderSuccessRate,
                   posSuccessRate, deliverySuccessRate, lifecycleMetrics,
                   counters, responses>>

\* Phase 7: POST /pos/order/callback (ACCEPTED)
PosAccept ==
    /\ pc = "posAccept"
    /\ \E status \in Statuses :
         /\ calls' = Append(calls,
              Call("POST /pos/order/callback", "",
                   generateOrderStatusUpdate(menuSharingCode, JsString(orderId),
                                             ORDER_LIFECYCLE_ACCEPTED)))
         /\ posSuccessRate' = Append(posSuccessRate, IF status = 200 THEN 1 ELSE 0)
         /\ pc' = AfterSoftPhase(status = 200, "posReady")
    /\ UNCHANGED <<standalone, outside, phase3, ids, phase10, phase9, loginSuccessRate, orderSuccessRate,
                   paymentSuccessRate, deliverySuccessRate, lifecycleMetrics,
                   counters, responses>>

\* Phase 8: POST /pos/order/callback (READY_FOR_DELIVERY)
PosReady ==
    /\ pc = "posReady"
    /\ \E status \in Statuses :
         /\ calls' = Append(calls,
              Call("POST /pos/order/callback", "",
                   generateOrderStatusUpdate(menuSharingCode, JsString(orderId),
                                             ORDER_LIFECYCLE_READY_FOR_DELIVERY)))
         /\ posSuccessRate' = Append(posSuccessRate, IF status = 200 THEN 1 ELSE 0)
         /\ pc' = AfterSoftPhase(status = 200, "deliveryCallbacks")
    /\ UNCHANGED <<standalone, outside, phase3, ids, phase10, phase9, loginSuccessRate, orderSuccessRate,
                   paymentSuccessRate, deliverySuccessRate, lifecycleMetrics,
                   counters, responses>>

\* mutant: the logs are carried forward whatever the response
LogsAfter_Always(statusOk, oldLogs, updatedLogs) == updatedLogs

\* Phase 9 loop: if (statusOk) { logs = updatedLogs; }
LogsAfter(statusOk, oldLogs, updatedLogs) ==
    IF statusOk THEN updatedLogs ELSE oldLogs

\* Phase 9 loop: ... else { allSuccess = false; }
AllSuccessAfter(statusOk, old) == old /\ statusOk

\* mutant: the loop stops at the first callback that is not answered 200
LoopContinues_UntilFailure(statusOk, i) ==
    statusOk /\ i < Len(DELIVERY_STATUS_SEQUENCE)

\* Phase 9 loop: whether the loop goes on to the next status after a response
LoopContinues(statusOk, i) == i < Len(DELIVERY_STATUS_SEQUENCE)

\* mutant: the channel order id is drawn anew for every callback
ChannelOrderIdAt_Redrawn(i) == ChannelOrderIds

\* const channelOrderId = Math.floor(100000 + Math.random() * 900000): drawn
\* once at the top of the group, before the first of the callbacks
ChannelOrderIdAt(i) == IF i = 0 THEN ChannelOrderIds ELSE {channelOrderId}

\* Phase 9: one iteration of the loop over DELIVERY_STATUS_SEQUENCE.  The
\* first iteration follows the choice of deliveryId, channelOrderId and
\* baseTime at the top of the group.
DeliveryCallback ==
    /\ pc = "deliveryCallbacks"
    /\ \E did \in IF cbIdx = 0 THEN DeliveryIds ELSE {deliveryId},
          ch \in ChannelOrderIdAt(cbIdx),
          base \in IF cbIdx = 0 THEN BaseTimes ELSE {baseTime},
          rstatus \in CallbackStatuses :
         LET i == cbIdx + 1
             status == DELIVERY_STATUS_SEQUENCE[i]
             minutesOffset == MinutesOffset(status)
             gen == generateDeliveryCallback(orderId, did, ch, status, logs,
                                             base, minutesOffset)
             statusOk == rstatus = 200
             all == AllSuccessAfter(statusOk, allSuccess)
         IN /\ deliveryId' = did
            /\ channelOrderId' = ch
            /\ baseTime' = base
            /\ calls' = Append(calls, Call("POST /delivery/callback", "", status))
            /\ sent' = Append(sent, gen.payload)
            /\ cbRes' = Append(cbRes, rstatus)
            /\ logs' = LogsAfter(statusOk, logs, gen.logs)
            /\ allSuccess' = all
            /\ cbIdx' = i
            /\ IF LoopContinues(statusOk, i)
               THEN UNCHANGED <<pc, deliverySuccessRate>>
               ELSE /\ deliverySuccessRate' =
                         Append(deliverySuccessRate, IF all THEN 1 ELSE 0)
                    /\ pc' = "orderGet"
    /\ UNCHANGED <<standalone, outside, phase3, ids, phase10, loginSuccessRate, orderSuccessRate,
                   paymentSuccessRate, posSuccessRate, lifecycleMetrics,
                   counters, responses>>

\* Phase 10: the 'Status DELIVERED' predicate
StatusDelivered(res) ==
    /\ res.body.kind # "invalid"
    /\ DataField(res.body, "status") = "DELIVERED"

\* mutant: the HTTP status of the GET is not looked at
Delivered_AnyStatus(res) == StatusDelivered(res)

\* Phase 10: delivered = check(res, {'Order fetched', 'Status DELIVERED'})
Delivered(res) == res.status = 200 /\ StatusDelivered(res)

\* Phase 10: GET /order/{id}
OrderGet ==
    /\ pc = "orderGet"
    /\ \E res \in OrderGetResponses :
         /\ calls' = Append(calls, Call("GET /order", orderId, ""))
         /\ getRes' = res
         /\ delivered' = Delivered(res)
         /\ pc' = "orderTrack"
    /\ UNCHANGED <<standalone, outside, phase3, ids, lifecycleSuccess, phase9, phaseRates, lifecycleMetrics,
                   counters, otpRes, verifyRes, orderRes, payRes>>

\* Phase 10: GET /order/track/{id}, then the end of the function
OrderTrack ==
    /\ pc = "orderTrack"
    /\ \E status \in Statuses :
         /\ calls' = Append(calls, Call("GET /order/track", orderId, ""))
         /\ ordersDelivered' = IF delivered THEN ordersDelivered + 1 ELSE ordersDelivered
         /\ lifecycleSuccess' = (delivered \/ lifecycleSuccess)
         /\ RecordLifecycle(lifecycleSuccess')
    /\ UNCHANGED <<standalone, outside, phase3, ids, delivered, phase9, phaseRates, ordersCompleted, responses>>

Next ==
    \/ BrowseMenu
    \/ BrowseAddons
    \/ LoginOtp
    \/ LoginVerify
    \/ DeliveryQuote
    \/ CreateOrder
    \/ CreatePayment
    \/ VerifyPayment
    \/ PosAccept
    \/ PosReady
    \/ DeliveryCallback
    \/ OrderGet
    \/ OrderTrack

Spec == Init /\ [][Next]_vars

\* every call returns (a response, or a timeout after CONFIG.REQUEST_TIMEOUT)
\* and k6 runs the function on: the execution never stops between two calls
FairSpec == Spec /\ WF_vars(Next)

\* the lifecycle test with the Address phase (its Phase 3 lists, creates or
\* falls back to an address before the quote; the other phases are the same)
AddressNext ==
    \/ BrowseMenu
    \/ BrowseAddons
    \/ LoginOtp
    \/ LoginVerify
    \/ AddressList
    \/ AddressCreate
    \/ AddressQuote
    \/ CreateOrder
    \/ CreatePayment
    \/ VerifyPayment
    \/ PosAccept
    \/ PosReady
    \/ DeliveryCallback
    \/ OrderGet
    \/ OrderTrack

AddressSpec == Init /\ [][AddressNext]_vars

(***************************************************************************)
(* A run of the test in multi mode: setup(), then the shared-iterations     *)
(* executor of options.scenarios.order_lifecycle                            *)
(***************************************************************************)
Min(a, b) == IF a < b THEN a ELSE b

RestaurantIds == {"", "r1"}
OrderCounts == 1..MaxOrderCount

\* mutant: the pool is as large as the number of orders
multiScenarioVUs_Uncapped(orderCount) == orderCount

\* vus: Math.min(50, orderCount)
multiScenarioVUs(orderCount) == Min(50, orderCount)

\* iterations: orderCount
multiScenarioIterations(orderCount) == orderCount

\* mutant: setup never throws
SetupThrows_Never(rid) == FALSE

\* if (!CONFIG.RESTAURANT_ID) { throw new Error('RESTAURANT_ID is required!'); }
SetupThrows(rid) == ~Truthy(rid)

RunInit ==
    /\ ExecutionStart
    /\ StandaloneIdle
    /\ RESTAURANT_ID \in RestaurantIds
    /\ ORDER_COUNT \in OrderCounts
    /\ setupState = "notRun"
    /\ iterationsStarted = 0
    /\ activeVUs = 0
    /\ iterationsCompleted = 0
    /\ iterationsInterrupted = 0
    /\ maxDurationReached = FALSE
    /\ vu = [v \in VUs |-> IdleVU]

lifecycle == <<pc, calls, ids, phase3, phase9, phase10, phaseRates,
               lifecycleMetrics, counters, responses>>

\* setup(): throws without a restaurant id, else fetches the menu and returns
\* the data handed to every iteration
Setup ==
    /\ setupState = "notRun"
    /\ setupState' = IF SetupThrows(RESTAURANT_ID) THEN "thrown" ELSE "returned"
    /\ UNCHANGED <<standalone, lifecycle, config, iterationsStarted, activeVUs,
                   iterationsCompleted, iterationsInterrupted,
                   maxDurationReached, vu>>

\* a free VU of the pool takes the next of the shared iterations
StartIteration ==
    /\ setupState = "returned"
    /\ ~maxDurationReached
    /\ iterationsStarted < multiScenarioIterations(ORDER_COUNT)
    /\ activeVUs < multiScenarioVUs(ORDER_COUNT)
    /\ iterationsStarted' = iterationsStarted + 1
    /\ activeVUs' = activeVUs + 1
    /\ UNCHANGED <<standalone, lifecycle, config, setupState, iterationsCompleted,
                   iterationsInterrupted, maxDurationReached, vu>>

\* an execution of the default function returns
FinishIteration ==
    /\ activeVUs > 0
    /\ activeVUs' = activeVUs - 1
    /\ iterationsCompleted' = iterationsCompleted + 1
    /\ UNCHANGED <<standalone, lifecycle, config, setupState, iterationsStarted,
                   iterationsInterrupted, maxDurationReached, vu>>

\* maxDuration: '60m' elapses: the executions in progress are interrupted and
\* the iterations not started yet are dropped
MaxDurationElapsed ==
    /\ setupState = "returned"
    /\ ~maxDurationReached
    /\ maxDurationReached' = TRUE
    /\ iterationsInterrupted' = iterationsInterrupted + activeVUs
    /\ activeVUs' = 0
    /\ UNCHANGED <<standalone, lifecycle, config, setupState, iterationsStarted,
                   iterationsCompleted, vu>>

RunNext ==
    \/ Setup
    \/ StartIteration
    \/ FinishIteration
    \/ MaxDurationElapsed

RunSpec == RunInit /\ [][RunNext]_vars

(***************************************************************************)
(* Several VUs running the default function concurrently: each keeps its    *)
(* own locals, and the VUs interleave at every HTTP call                    *)
(***************************************************************************)
ActorsInit ==
    /\ ExecutionStart
    /\ StandaloneIdle
    /\ RESTAURANT_ID = "r1"
    /\ ORDER_COUNT = NumVUs * MaxIterations
    /\ setupState = "returned"
    /\ iterationsStarted = 0
    /\ activeVUs = 0
    /\ iterationsCompleted = 0
    /\ iterationsInterrupted = 0
    /\ maxDurationReached = FALSE
    /\ vu = [v \in VUs |-> IdleVU]

\* mutant: the ids are kept in module scope and survive the iteration
LocalsAtStart_Kept(old) == old

\* let customerId = null; ... at the top of the default function
LocalsAtStart(old) == NullLocals

\* VU v after an HTTP call carrying the ids `carried`, with its locals and
\* position updated
VuAfter(v, next, locals, carried) ==
    [vu EXCEPT ![v] = [@ EXCEPT !.pc = next, !.locals = locals, !.request = carried]]

\* the execution of VU v returns
VuReturn(v, locals, carried) ==
    /\ vu' = VuAfter(v, "idle", locals, carried)
    /\ activeVUs' = activeVUs - 1
    /\ iterationsCompleted' = iterationsCompleted + 1
    /\ UNCHANGED iterationsStarted

\* the execution of VU v goes on to its next call
VuGoOn(v, next, locals, carried) ==
    /\ vu' = VuAfter(v, next, locals, carried)
    /\ UNCHANGED <<iterationsStarted, activeVUs, iterationsCompleted>>

\* VU v starts an execution: fresh locals, then Browse and the OTP request
\* (they carry none of the ids)
VuStart(v) ==
    /\ vu[v].pc = "idle"
    /\ vu[v].iteration < MaxIterations
    /\ vu' = [vu EXCEPT ![v] = [pc |-> "loginVerify",
                                iteration |-> @.iteration + 1,
                                locals |-> LocalsAtStart(@.locals),
                                request |-> {},
                                cb |-> 0]]
    /\ iterationsStarted' = iterationsStarted + 1
    /\ activeVUs' = activeVUs + 1
    /\ UNCHANGED <<standalone, lifecycle, config, setupState, iterationsCompleted,
                   iterationsInterrupted, maxDurationReached>>

\* Phase 2 of VU v: the verify answer may carry a customer id; the gate
VuLoginVerify(v) ==
    /\ vu[v].pc = "loginVerify"
    /\ \E ok \in BOOLEAN :
         LET l == IF ok
                  THEN [vu[v].locals EXCEPT
                          !.customerId = ObtainedId(v, vu[v].iteration, "customer")]
                  ELSE vu[v].locals
         IN IF HasId(l.customerId)
            THEN VuGoOn(v, "createOrder", l, {})
            ELSE VuReturn(v, l, {})
    /\ UNCHANGED <<standalone, lifecycle, config, setupState, iterationsInterrupted,
                   maxDurationReached>>

\* Phases 3-4 of VU v: the order draft carries customerId; the gate
VuCreateOrder(v) ==
    /\ vu[v].pc = "createOrder"
    /\ \E ok \in BOOLEAN :
         LET l == IF ok
                  THEN [vu[v].locals EXCEPT
                          !.orderId = ObtainedId(v, vu[v].iteration, "order")]
                  ELSE vu[v].locals
             carried == {vu[v].locals.customerId}
         IN IF HasId(l.orderId)
            THEN VuGoOn(v, "createPayment", l, carried)
            ELSE VuReturn(v, l, carried)
    /\ UNCHANGED <<standalone, lifecycle, config, setupState, iterationsInterrupted,
                   maxDurationReached>>

\* Phase 5 of VU v: POST /payment/{orderId}; the gate
VuCreatePayment(v) ==
    /\ vu[v].pc = "createPayment"
    /\ \E ok \in BOOLEAN :
         LET l == IF ok
                  THEN [vu[v].locals EXCEPT
                          !.paymentOrderId = ObtainedId(v, vu[v].iteration, "payment")]
                  ELSE vu[v].locals
             carried == {vu[v].locals.orderId}
         IN IF HasId(l.paymentOrderId)
            THEN VuGoOn(v, "verifyPayment", l, carried)
            ELSE VuReturn(v, l, carried)
    /\ UNCHANGED <<standalone, lifecycle, config, setupState, iterationsInterrupted,
                   maxDurationReached>>

\* Phase 6 of VU v: POST /payment/verify/{orderId} with razorpayOrderId
VuVerifyPayment(v) ==
    /\ vu[v].pc = "verifyPayment"
    /\ VuGoOn(v, "posCallbacks", vu[v].locals,
              {vu[v].locals.orderId, vu[v].locals.paymentOrderId})
    /\ UNCHANGED <<standalone, lifecycle, config, setupState, iterationsInterrupted,
                   maxDurationReached>>

\* Phases 7-8 of VU v: the POS callbacks carry orderId
VuPosCallback(v) ==
    /\ vu[v].pc \in {"posCallbacks", "posReady"}
    /\ VuGoOn(v, IF vu[v].pc = "posCallbacks" THEN "posReady" ELSE "firstCallback",
              vu[v].locals, {vu[v].locals.orderId})
    /\ UNCHANGED <<standalone, lifecycle, config, setupState, iterationsInterrupted,
                   maxDurationReached>>

\* Phase 9 of VU v: deliveryId and channelOrderId are generated before the
\* first callback, and every callback carries them with orderId
VuDeliveryCallback(v) ==
    /\ vu[v].pc \in {"firstCallback", "nextCallback"}
    /\ LET l == IF vu[v].pc = "firstCallback"
                THEN [vu[v].locals EXCEPT
                        !.deliveryId = ObtainedId(v, vu[v].iteration, "delivery"),
                        !.channelOrderId = ObtainedId(v, vu[v].iteration, "channel")]
                ELSE vu[v].locals
           sentSoFar == vu[v].cb + 1
       IN /\ vu' = [VuAfter(v, IF sentSoFar < Len(DELIVERY_STATUS_SEQUENCE)
                               THEN "nextCallback" ELSE "tracking",
                            l, {l.orderId, l.deliveryId, l.channelOrderId})
                      EXCEPT ![v].cb = sentSoFar]
          /\ UNCHANGED <<iterationsStarted, activeVUs, iterationsCompleted>>
    /\ UNCHANGED <<standalone, lifecycle, config, setupState, iterationsInterrupted,
                   maxDurationReached>>

\* Phase 10 of VU v: GET /order/{orderId} and the track call, then the
\* execution returns
VuTracking(v) ==
    /\ vu[v].pc \in {"tracking", "track"}
    /\ IF vu[v].pc = "tracking"
       THEN VuGoOn(v, "track", vu[v].locals, {vu[v].locals.orderId})
       ELSE VuReturn(v, vu[v].locals, {vu[v].locals.orderId})
    /\ UNCHANGED <<standalone, lifecycle, config, setupState, iterationsInterrupted,
                   maxDurationReached>>

ActorsNext ==
    \E v \in VUs :
        \/ VuStart(v)
        \/ VuLoginVerify(v)
        \/ VuCreateOrder(v)
        \/ VuCreatePayment(v)
        \/ VuVerifyPayment(v)
        \/ VuPosCallback(v)
        \/ VuDeliveryCallback(v)
        \/ VuTracking(v)

ActorsSpec == ActorsInit /\ [][ActorsNext]_vars

(***************************************************************************)
(* Order draft generators (generateOrderDto of data/test-data.js and       *)
(* generateDynamicOrderDto of utils/helpers.js).  Amounts are exact        *)
(* decimals held as integers, 100000 to one currency unit, so that a price *)
(* in hundredths times a rate in tenths of a percent is exact.             *)
(***************************************************************************)
\* no run of a scenario is in progress
NoRun ==
    /\ RESTAURANT_ID = "r1"
    /\ ORDER_COUNT = 1
    /\ setupState = "notRun"
    /\ iterationsStarted = 0
    /\ activeVUs = 0
    /\ iterationsCompleted = 0
    /\ iterationsInterrupted = 0
    /\ maxDurationReached = FALSE
    /\ vu = [v \in VUs |-> IdleVU]

restOfDrafts == <<lifecycle, outside, posUpdate, callbacks, otpMock, orderFlows, singleOrder, mixed, loginFlow, stress, userPools>>

\* the amount whole.hundredths
Amount(whole, hundredths) == whole * 100000 + hundredths * 1000

\* (amount * rate) / 100 for an amount in whole hundredths (a price times a
\* quantity) and a rate given in tenths of a percent
TaxOn(amount, rate) == (amount \div 1000) * rate

\* parseFloat(x.toFixed(2)), x >= 0: the nearest hundredth.  An amount halfway
\* between two hundredths is a double just below or just above the tie, and
\* toFixed gives the one or the other hundredth accordingly
ToFixed2(x) ==
    LET down == (x \div 1000) * 1000
        rest == x % 1000
    IN IF rest < 500 THEN {down}
       ELSE IF rest > 500 THEN {down + 1000}
       ELSE {down, down + 1000}

RECURSIVE Sum(_)
\* the sum of the numbers of the sequence s, as a reduce or a += loop
Sum(s) == IF s = <<>> THEN 0 ELSE Head(s) + Sum(Tail(s))

RECURSIVE SeqsOf(_)
\* the sequences whose i-th element is drawn from sets[i]
SeqsOf(sets) ==
    IF sets = <<>> THEN {<<>>}
    ELSE {<<h>> \o t : h \in Head(sets), t \in SeqsOf(Tail(sets))}

TAX_IDS == [CGST |-> "271757", SGST |-> "271758"]

\* id, price and the two rates (2.5 % each) of the sample menu items
SAMPLE_ITEMS ==
    << [id |-> "10523187", price |-> Amount(569, 50), cgstRate |-> 25, sgstRate |-> 25],
       [id |-> "10523188", price |-> Amount(19, 0), cgstRate |-> 25, sgstRate |-> 25],
       [id |-> "1269809087", price |-> Amount(250, 0), cgstRate |-> 25, sgstRate |-> 25],
       [id |-> "1269869732", price |-> Amount(180, 0), cgstRate |-> 25, sgstRate |-> 25] >>

SAMPLE_ADDRESS_IDS == <<"106335">>

\* Math.floor(Math.random() * 2) + 1
RandomOneOrTwo == {1, 2}

\* the options argument: itemCount 0 stands for an absent (or zero, equally
\* falsy) itemCount
OrderOptions ==
    [itemCount : {0, 2}, orderType : {Undefined, "1", "2"},
     addressId : {Undefined, "a1"}]

\* mutant: no order type is charged for delivery
DeliveryChargeFor_Free(orderType) == 0

\* options.orderType === '2' ? 0 : 53.1
DeliveryChargeFor(orderType) == IF orderType = "2" THEN 0 ELSE Amount(53, 10)

PackagingCharge == Amount(20, 0)

ItemTax(id, name, amount) == [id |-> id, name |-> name, amount |-> amount]

OrderTax(id, title, type, rate, tax) ==
    [id |-> id, title |-> title, type |-> type, price |-> rate, tax |-> tax,
     restaurantLiableAmt |-> tax]

OrderItem(item, quantity, finalPrice, orderItemTax) ==
    [id |-> item.id, finalPrice |-> finalPrice, quantity |-> quantity,
     price |-> item.price, orderItemTax |-> orderItemTax]

\* the object a generator returns (the fields amounts and ids depend on)
OrderDto(customer, options, orderItems, orderTax, totalAmount, taxAmount, deliveryCharge, address) ==
    [isNull |-> FALSE,
     customerId |-> customer,
     orderType |-> Or(options.orderType, "1"),
     orderItems |-> orderItems,
     orderTax |-> orderTax,
     deliveryDetails |-> [addressId |-> address],
     totalAmount |-> totalAmount,
     taxAmount |-> taxAmount,
     deliveryCharge |-> deliveryCharge,
     packagingCharge |-> PackagingCharge,
     grandTotalAmount |-> totalAmount]

FinalPriceOf(orderItem) == orderItem.finalPrice

\* const finalPrice = item.price * quantity
LineTotal(price, quantity) == price * quantity

\* mutant: the packaging charge is left out of the total
GrandTotal_NoPackaging(subtotal, taxAmount, deliveryCharge, packagingCharge) ==
    subtotal + taxAmount + deliveryCharge

\* const grandTotal = subtotal + taxAmount + deliveryCharge + packagingCharge
GrandTotal(subtotal, taxAmount, deliveryCharge, packagingCharge) ==
    subtotal + taxAmount + deliveryCharge + packagingCharge

\* one pass of the loop of generateOrderDto for a sample item and a quantity:
\* the order items it may push
SampleOrderItems(pick) ==
    LET item == SAMPLE_ITEMS[pick.index]
        finalPrice == LineTotal(item.price, pick.quantity)
    IN {OrderItem(item, pick.quantity, finalPrice,
                  <<ItemTax(TAX_IDS.CGST, "CGST", c), ItemTax(TAX_IDS.SGST, "SGST", s)>>) :
           c \in ToFixed2(TaxOn(finalPrice, item.cgstRate)),
           s \in ToFixed2(TaxOn(finalPrice, item.sgstRate))}

CgstOf(pick) ==
    TaxOn(LineTotal(SAMPLE_ITEMS[pick.index].price, pick.quantity),
          SAMPLE_ITEMS[pick.index].cgstRate)

SgstOf(pick) ==
    TaxOn(LineTotal(SAMPLE_ITEMS[pick.index].price, pick.quantity),
          SAMPLE_ITEMS[pick.index].sgstRate)

SamplePicks == [index : 1..Len(SAMPLE_ITEMS), quantity : RandomOneOrTwo]

\* generateOrderDto(restaurantId, customerId, options) with the random draws
\* `drawn` (item count) and `picks`
GenerateOrderDto ==
    /\ orderPayload = NoDto
    /\ \E options \in OrderOptions, drawn \in RandomOneOrTwo,
       picks \in [1..2 -> SamplePicks] :
        LET itemCount == IF options.itemCount # 0 THEN options.itemCount ELSE drawn
            used == SubSeq(picks, 1, itemCount)
            totalCgst == Sum([n \in DOMAIN used |-> CgstOf(used[n])])
            totalSgst == Sum([n \in DOMAIN used |-> SgstOf(used[n])])
            taxAmount == totalCgst + totalSgst
            deliveryCharge == DeliveryChargeFor(options.orderType)
        IN \E orderItems \in SeqsOf([i \in 1..itemCount |-> SampleOrderItems(used[i])]),
              cgst \in ToFixed2(totalCgst), sgst \in ToFixed2(totalSgst),
              tax \in ToFixed2(taxAmount) :
             LET subtotal == Sum([n \in DOMAIN orderItems |-> FinalPriceOf(orderItems[n])])
                 grandTotal == GrandTotal(subtotal, taxAmount, deliveryCharge,
                                          PackagingCharge)
             IN \E total \in ToFixed2(grandTotal) :
                  /\ orderPayload' =
                        OrderDto("c1", options, orderItems,
                                 <<OrderTax(TAX_IDS.CGST, "CGST", "1", 25, cgst),
                                   OrderTax(TAX_IDS.SGST, "SGST", "1", 25, sgst)>>,
                                 total, tax, deliveryCharge,
                                 Or(options.addressId, SAMPLE_ADDRESS_IDS[1]))
                  /\ draftLocals' = DraftLocals(subtotal, taxAmount)
                  /\ UNCHANGED <<menuData, fetchedMenu, restOfDrafts>>

\* a tax of a menu item as parseMenuData builds it; the rate in tenths of a
\* percent
MenuTax(id, name, rate) == [id |-> id, name |-> name, rate |-> rate, type |-> "1"]

MenuItem(id, price, taxes) == [id |-> id, price |-> price, taxes |-> taxes]

Cgst == MenuTax(TAX_IDS.CGST, "CGST", 25)
Sgst == MenuTax(TAX_IDS.SGST, "SGST", 25)

\* the result of fetchMenuData: items, and the unique taxes found on them
MenuData(items, taxes) == [present |-> TRUE, items |-> items, taxes |-> taxes]

EmptyMenu == MenuData(<<>>, <<>>)

\* two items priced 100.00 and 50.00, each taxed 2.5 % + 2.5 %
TwoItemMenu ==
    MenuData(<< MenuItem("i100", Amount(100, 0), <<Cgst, Sgst>>),
                MenuItem("i50", Amount(50, 0), <<Cgst, Sgst>>) >>,
             <<Cgst, Sgst>>)

\* an item whose taxes end on half a hundredth, an item with one tax and an
\* untaxed item
MixedMenu ==
    MenuData(<< MenuItem("i19", Amount(19, 0), <<Cgst, Sgst>>),
                MenuItem("i30", Amount(30, 0), <<Cgst>>),
                MenuItem("i7", Amount(7, 0), <<>>) >>,
             <<Cgst, Sgst>>)

MenuSnapshots == {AbsentMenu, EmptyMenu, TwoItemMenu, MixedMenu}

\* s without its i-th element
Without(s, i) == SubSeq(s, 1, i - 1) \o SubSeq(s, i + 1, Len(s))

RECURSIVE Spliced(_, _)
\* the loop of getRandomItems on availableItems: the items spliced out, in
\* the order drawn, and what is left of availableItems
Spliced(availableItems, count) ==
    IF count = 0 \/ availableItems = <<>>
    THEN {[items |-> <<>>, left |-> availableItems]}
    ELSE UNION {{[items |-> <<availableItems[index]>> \o r.items, left |-> r.left] :
                    r \in Spliced(Without(availableItems, index), count - 1)} :
                index \in 1..Len(availableItems)}

\* getRandomItems(menuData, count): no items without a menu; else the loop
\* runs on a copy of menuData.items
getRandomItems(menu, count) ==
    IF ~menu.present \/ Len(menu.items) = 0
    THEN {[items |-> <<>>, left |-> menu.items]}
    ELSE Spliced(menu.items, count)

\* mutant: the items are spliced out of menuData.items itself
MenuAfterSelection_InPlace(menu, left) == [menu EXCEPT !.items = left]

\* menuData after getRandomItems: availableItems = [...menuData.items] is a
\* copy, so what the splices leave of it does not show in menuData
MenuAfterSelection(menu, left) == menu

\* taxTotals after currentTotal.total += taxAmount for `tax`: the entry of
\* tax.id, or a copy of tax with total 0 appended first
Accumulated(taxTotals, tax, amount) ==
    IF \E i \in DOMAIN taxTotals : taxTotals[i].id = tax.id
    THEN [i \in DOMAIN taxTotals |->
             IF taxTotals[i].id = tax.id
             THEN [taxTotals[i] EXCEPT !.total = @ + amount]
             ELSE taxTotals[i]]
    ELSE Append(taxTotals,
                [id |-> tax.id, name |-> tax.name, rate |-> tax.rate,
                 type |-> tax.type, total |-> amount])

RECURSIVE AccumulateTaxes(_, _, _)
\* the inner loop over item.taxes
AccumulateTaxes(taxTotals, taxes, finalPrice) ==
    IF taxes = <<>> THEN taxTotals
    ELSE AccumulateTaxes(
             Accumulated(taxTotals, Head(taxes), TaxOn(finalPrice, Head(taxes).rate)),
             Tail(taxes), finalPrice)

RECURSIVE TaxTotals(_, _)
\* the outer loop over the selected items: lines are items with quantities
TaxTotals(taxTotals, lines) ==
    IF lines = <<>> THEN taxTotals
    ELSE TaxTotals(
             AccumulateTaxes(taxTotals, Head(lines).item.taxes,
                             LineTotal(Head(lines).item.price, Head(lines).quantity)),
             Tail(lines))

TotalOf(tax) == tax.total

\* the order items one pass of the outer loop may push
DynamicOrderItems(line) ==
    LET finalPrice == LineTotal(line.item.price, line.quantity)
        taxes == line.item.taxes
    IN {OrderItem(line.item, line.quantity, finalPrice, orderItemTax) :
           orderItemTax \in
              SeqsOf([j \in 1..Len(taxes) |->
                        {ItemTax(taxes[j].id, taxes[j].name, a) :
                            a \in ToFixed2(TaxOn(finalPrice, taxes[j].rate))}])}

\* generateDynamicOrderDto(restaurantId, customerId, menuData, options) with
\* the random draws `drawn` (item count), the splices and the quantities
GenerateDynamicOrderDto ==
    /\ orderPayload = NoDto
    /\ \E options \in OrderOptions, drawn \in RandomOneOrTwo :
        LET itemCount == IF options.itemCount # 0 THEN options.itemCount ELSE drawn
        IN \E selected \in getRandomItems(menuData, itemCount) :
             /\ menuData' = MenuAfterSelection(menuData, selected.left)
             /\ IF Len(selected.items) = 0
                THEN /\ orderPayload' = NullDto
                     /\ draftLocals' = NoLocals
                ELSE \E quantities \in [1..Len(selected.items) -> RandomOneOrTwo] :
                       LET lines == [i \in 1..Len(selected.items) |->
                                       [item |-> selected.items[i],
                                        quantity |-> quantities[i]]]
                           taxTotals == TaxTotals(<<>>, lines)
                           taxAmount == Sum([n \in DOMAIN taxTotals |-> TotalOf(taxTotals[n])])
                           deliveryCharge == DeliveryChargeFor(options.orderType)
                       IN \E orderItems \in
                                SeqsOf([i \in 1..Len(lines) |-> DynamicOrderItems(lines[i])]),
                             orderTax \in
                                SeqsOf([i \in 1..Len(taxTotals) |->
                                          {OrderTax(taxTotals[i].id, taxTotals[i].name,
                                                    taxTotals[i].type, taxTotals[i].rate, t) :
                                              t \in ToFixed2(taxTotals[i].total)}]),
                             tax \in ToFixed2(taxAmount) :
                            LET subtotal == Sum([n \in DOMAIN orderItems |-> FinalPriceOf(orderItems[n])])
                                grandTotal == GrandTotal(subtotal, taxAmount,
                                                         deliveryCharge, PackagingCharge)
                            IN \E total \in ToFixed2(grandTotal) :
                                 /\ orderPayload' =
                                       OrderDto("c1", options, orderItems, orderTax,
                                                total, tax, deliveryCharge,
                                                Or(options.addressId, "106335"))
                                 /\ draftLocals' = DraftLocals(subtotal, taxAmount)
             /\ UNCHANGED <<fetchedMenu, restOfDrafts>>

\* the group that built the draft ends: its local orderPayload is gone
EndOfOrderGroup ==
    /\ orderPayload # NoDto
    /\ orderPayload' = NoDto
    /\ draftLocals' = NoLocals
    /\ UNCHANGED <<menuData, fetchedMenu, restOfDrafts>>

DraftInit ==
    /\ ExecutionStart
    /\ NoRun
    /\ UserPoolIdle
    /\ StressIdle
    /\ LoginFlowIdle
    /\ MixedIdle
    /\ SingleOrderIdle
    /\ PosUpdateIdle
    /\ CallbacksIdle
    /\ OtpMockStarted
    /\ FlowsIdle
    /\ menuData \in MenuSnapshots
    /\ fetchedMenu = menuData
    /\ orderPayload = NoDto
    /\ draftLocals = NoLocals

DraftNext ==
    \/ GenerateOrderDto
    \/ GenerateDynamicOrderDto
    \/ EndOfOrderGroup

DraftSpec == DraftInit /\ [][DraftNext]_vars

(***************************************************************************)
(* generateOrderStatusUpdate called on its own, over status names, order    *)
(* ids of every type a response can carry, and menu sharing codes          *)
(***************************************************************************)
ORDER_LIFECYCLE ==
    {"CREATED", "PAYMENT_PENDING", "PAID", "ACCEPTED", "READY_FOR_DELIVERY",
     "SEARCHING_RIDER", "RIDER_ASSIGNED", "OUT_FOR_PICKUP", "PICKED_UP",
     "OUT_FOR_DELIVERY", "DELIVERED"}

\* the names of ORDER_LIFECYCLE and ORDER_STATUS, and names of neither
StatusNames == ORDER_LIFECYCLE \cup {"PENDING", "CANCELLED", "UNKNOWN", ""}

\* an order id as a response may carry it: a number, a string, or none
OrderIdValues ==
    {JsNumber(7), JsNumber(106335), JsString("7"), JsString("o1"), JsNull,
     JsUndefined}

restOfPosUpdate == <<lifecycle, outside, drafts, callbacks, otpMock, orderFlows, singleOrder, mixed, loginFlow, stress, userPools>>

GenerateOrderStatusUpdate ==
    \E msc \in MenuSharingCodes \cup {Undefined}, oid \in OrderIdValues,
       status \in StatusNames :
        /\ updateArgs' = <<msc, oid, status>>
        /\ updatePayload' = generateOrderStatusUpdate(msc, oid, status)
        /\ UNCHANGED restOfPosUpdate

PosUpdateInit ==
    /\ ExecutionStart
    /\ NoRun
    /\ UserPoolIdle
    /\ StressIdle
    /\ LoginFlowIdle
    /\ MixedIdle
    /\ SingleOrderIdle
    /\ DraftsIdle
    /\ PosUpdateIdle
    /\ CallbacksIdle
    /\ OtpMockStarted
    /\ FlowsIdle

PosUpdateNext == GenerateOrderStatusUpdate

PosUpdateSpec == PosUpdateInit /\ [][PosUpdateNext]_vars

(***************************************************************************)
(* generateDeliveryCallback called along the fulfillment statuses by a     *)
(* caller that keeps the returned logs of an accepted callback, as the     *)
(* Phase 9 loop does                                                       *)
(***************************************************************************)
\* the fulfillment statuses of a delivery, in order
FULFILLMENT_SEQUENCE ==
    <<"CREATED", "OUT_FOR_PICKUP", "REACHED_PICKUP", "PICKED_UP",
      "OUT_FOR_DELIVERY", "REACHED_DELIVERY", "DELIVERED">>

restOfCallbacks == <<lifecycle, outside, drafts, posUpdate, otpMock, orderFlows, singleOrder, mixed, loginFlow, stress, userPools>>

\* mutant: the new entry is pushed onto the array passed in
PassedLogsAfter_Pushed(previousLogs, currentLog) == Append(previousLogs, currentLog)

\* the array passed as previousLogs after const logs = [...previousLogs,
\* currentLog]: the spread copies it
PassedLogsAfter(previousLogs, currentLog) == previousLogs

\* one pass of the callback loop for a status further along the sequence:
\* generate, POST, keep the updated logs if the callback was accepted
GenerateDeliveryCallback ==
    \E at \in 1..Len(FULFILLMENT_SEQUENCE), statusOk \in BOOLEAN :
        /\ fulfillAt < at
        /\ LET status == FULFILLMENT_SEQUENCE[at]
               result == generateDeliveryCallback("o1", "D1", 100000, status, heldLogs,
                                                  0, MinutesOffset(status))
               passed == PassedLogsAfter(heldLogs, result.logs[Len(result.logs)])
           IN /\ fulfillAt' = at
              /\ callbackArgs' = [status |-> status, previousLogs |-> heldLogs]
              /\ passedLogs' = passed
              /\ generated' = result
              /\ heldLogs' = LogsAfter(statusOk, passed, result.logs)
        /\ UNCHANGED restOfCallbacks

CallbackInit ==
    /\ ExecutionStart
    /\ NoRun
    /\ UserPoolIdle
    /\ StressIdle
    /\ LoginFlowIdle
    /\ MixedIdle
    /\ SingleOrderIdle
    /\ DraftsIdle
    /\ PosUpdateIdle
    /\ CallbacksIdle
    /\ OtpMockStarted
    /\ FlowsIdle

CallbackNext == GenerateDeliveryCallback

CallbackSpec == CallbackInit /\ [][CallbackNext]_vars

(***************************************************************************)
(* The 2Factor SMS/OTP mock (src/mock-services/sms/index.js).  A handler   *)
(* counts the request, awaits the configured delay and then runs to its    *)
(* end; nothing but requestCount is touched before the await, so a request  *)
(* is one step.  Time is in minutes and passes between requests.           *)
(***************************************************************************)
restOfOtpMock == <<lifecycle, outside, drafts, posUpdate, callbacks, orderFlows, singleOrder, mixed, loginFlow, stress, userPools>>

\* time passes, five minutes at a time
Tick ==
    /\ now + 5 <= MaxNow
    /\ now' = now + 5
    /\ UNCHANGED <<requestCount, otpStore, verifyAnswer, restOfOtpMock>>

\* data.timestamp < tenMinutesAgo
Expired(data, tenMinutesAgo) == data.timestamp < tenMinutesAgo

\* GET /API/V1/:key/SMS/:mobile/:otp: store the OTP, then delete the entries
\* older than ten minutes
SendOtp ==
    /\ requestCount < MaxRequests
    /\ \E mobile \in Mobiles, otp \in Otps :
         LET stored == [otpStore EXCEPT ![mobile] =
                           [otp |-> otp, timestamp |-> now, verified |-> FALSE]]
             tenMinutesAgo == now - 10
         IN otpStore' = [m \in Mobiles |->
                            IF stored[m] # NoEntry /\ Expired(stored[m], tenMinutesAgo)
                            THEN NoEntry ELSE stored[m]]
    /\ requestCount' = requestCount + 1
    /\ UNCHANGED <<now, verifyAnswer, restOfOtpMock>>

\* GET /API/V1/:key/VERIFY/:mobile/:otp: success if the stored OTP of the
\* mobile is the one given
VerifyByMobile ==
    /\ requestCount < MaxRequests
    /\ \E mobile \in Mobiles, otp \in Otps :
         LET stored == otpStore[mobile]
         IN IF stored # NoEntry /\ stored.otp = otp
            THEN /\ otpStore' = [otpStore EXCEPT ![mobile].verified = TRUE]
                 /\ verifyAnswer' = [Status |-> "Success", mobile |-> mobile,
                                     at |-> now, issued |-> stored.timestamp]
            ELSE /\ otpStore' = otpStore
                 /\ verifyAnswer' = [Status |-> "Error", mobile |-> mobile,
                                     at |-> now, issued |-> stored.timestamp]
    /\ requestCount' = requestCount + 1
    /\ UNCHANGED <<now, restOfOtpMock>>

\* POST /reset
ResetOtpMock ==
    /\ requestCount' = 0
    /\ otpStore' = [m \in Mobiles |-> NoEntry]
    /\ UNCHANGED <<now, verifyAnswer, restOfOtpMock>>

\* the endpoints that only count the request (verify by session, balance,
\* transactional SMS, any other /API path)
CountedRequest ==
    /\ requestCount < MaxRequests
    /\ requestCount' = requestCount + 1
    /\ UNCHANGED <<now, otpStore, verifyAnswer, restOfOtpMock>>

OtpInit ==
    /\ ExecutionStart
    /\ NoRun
    /\ UserPoolIdle
    /\ StressIdle
    /\ LoginFlowIdle
    /\ MixedIdle
    /\ SingleOrderIdle
    /\ DraftsIdle
    /\ PosUpdateIdle
    /\ CallbacksIdle
    /\ OtpMockStarted
    /\ FlowsIdle

OtpNext ==
    \/ Tick
    \/ SendOtp
    \/ VerifyByMobile
    \/ ResetOtpMock
    \/ CountedRequest

OtpSpec == OtpInit /\ [][OtpNext]_vars

(***************************************************************************)
(* The order and payment steps of the user-journey, order-stress and       *)
(* stress order flows: apiPost(ORDER_CREATE), the gate on orderId, then     *)
(* the payment create and payment verify calls.  An execution of           *)
(* order-stress or stressOrder is followed from the point where its login   *)
(* has yielded a customer; one of user-journey from its step '2. Login',    *)
(* without its steps 1 (browse) and 3 (address and quote), which add no     *)
(* counter or rate sample and never end the execution.  Samples of elapsed  *)
(* time (the Trend metrics) are not recorded.                               *)
(***************************************************************************)
restOfOrderFlows == <<lifecycle, outside, drafts, posUpdate, callbacks, otpMock, singleOrder, mixed, loginFlow, stress, userPools>>

\* POST /order as these flows may see it answered: any status, with or
\* without an id under data[0] or data
FlowOrderResponses ==
    {Response(s, b) :
        s \in Statuses \ {0},
        b \in EmptyBodies
              \cup {ArrayBody(<<Fields(o, Undefined, Undefined, "CREATED")>>) :
                      o \in OrderIds}
              \cup {ObjectBody(Fields(o, Undefined, Undefined, "CREATED")) :
                      o \in OrderIds}}
    \cup {TimedOut}

\* metric.add(value)
Sample(metric, value) == [metric |-> metric, value |-> value]

\* the samples added around 'Order created' / 'Order ID received' and by the
\* gate `if (!orderId)`
OrderSamples(f, success, oid) ==
    CASE f = "user-journey" ->
           IF Truthy(oid) THEN <<>>
           ELSE <<Sample("journeysFailed", 1), Sample("journeySuccessRate", 0)>>
      [] f = "order-stress" ->
           IF success
           THEN <<Sample("ordersCreated", 1), Sample("orderSuccessRate", 1)>>
           ELSE <<Sample("ordersFailed", 1), Sample("orderSuccessRate", 0)>>
      [] f = "stress" ->
           IF Truthy(oid) THEN <<>>
           ELSE <<Sample("ordersFailed", 1), Sample("errorRate", 1)>>

\* the samples added when no paymentOrderId was obtained
NoPaymentSamples(f) ==
    CASE f = "user-journey" ->
           <<Sample("journeySuccessRate", 0), Sample("journeysFailed", 1)>>
      [] f = "order-stress" -> <<Sample("paymentSuccessRate", 0)>>
      [] f = "stress" ->
           <<Sample("ordersFailed", 1), Sample("errorRate", 1),
             Sample("requestsPerSecond", 1)>>

\* the samples added after the payment verify call
VerifySamples(f, success) ==
    CASE f = "user-journey" ->
           IF success
           THEN <<Sample("journeysCompleted", 1), Sample("journeySuccessRate", 1)>>
           ELSE <<Sample("journeySuccessRate", 0), Sample("journeysFailed", 1)>>
      [] f = "order-stress" ->
           <<Sample("paymentSuccessRate", IF success THEN 1 ELSE 0)>>
      [] f = "stress" ->
           IF success
           THEN <<Sample("ordersSucceeded", 1), Sample("successRate", 1),
                  Sample("errorRate", 0), Sample("requestsPerSecond", 1)>>
           ELSE <<Sample("ordersFailed", 1), Sample("errorRate", 1),
                  Sample("requestsPerSecond", 1)>>

\* user-journey, '2. Login': the OTP request; on a status other than 200 the
\* group adds to journeysFailed and returns, customerId is still null and
\* the gate after the group ends the execution
FlowRequestOtp ==
    /\ flowPc = "requestOtp"
    /\ \E status \in Statuses :
         /\ flowCalls' = Append(flowCalls, Call("POST /login/otp", "", ""))
         /\ IF status # 200
            THEN /\ flowSamples' = flowSamples \o
                        <<Sample("journeysFailed", 1), Sample("journeysFailed", 1),
                          Sample("journeySuccessRate", 0)>>
                 /\ flowPc' = "done"
            ELSE /\ flowSamples' = flowSamples
                 /\ flowPc' = "verifyOtp"
    /\ UNCHANGED <<flow, flowOrderStatus, flowOrderId, flowPaymentOrderId,
                   restOfOrderFlows>>

\* user-journey, '2. Login': the OTP verify and the gate `if (!customerId)`
FlowVerifyOtp ==
    /\ flowPc = "verifyOtp"
    /\ \E res \in VerifyOtpResponses :
         LET cid == IF res.status = 200 /\ res.body.kind # "invalid"
                    THEN DataField(res.body, "id") ELSE Null
         IN /\ flowCalls' = Append(flowCalls, Call("POST /login/verify-otp", "", ""))
            /\ IF Truthy(cid)
               THEN /\ flowSamples' = flowSamples
                    /\ flowPc' = "placeOrder"
               ELSE /\ flowSamples' = flowSamples \o
                           <<Sample("journeysFailed", 1), Sample("journeySuccessRate", 0)>>
                    /\ flowPc' = "done"
    /\ UNCHANGED <<flow, flowOrderStatus, flowOrderId, flowPaymentOrderId,
                   restOfOrderFlows>>

\* res = apiPost(ENDPOINTS.ORDER_CREATE, orderPayload); orderId =
\* extractId(res), inside check() in user-journey and order-stress (check()
\* evaluates each of its predicates) and directly in stressOrder; then
\* `if (!orderId) return`
FlowPlaceOrder ==
    /\ flowPc = "placeOrder"
    /\ \E res \in FlowOrderResponses :
         LET oid == extractId(res)
             success == res.status = 200 /\ Truthy(oid)
         IN /\ flowCalls' = Append(flowCalls, Call("POST /order", "", OrderDraft))
            /\ flowOrderStatus' = res.status
            /\ flowOrderId' = oid
            /\ flowSamples' = flowSamples \o OrderSamples(flow, success, oid)
            /\ flowPc' = IF Truthy(oid) THEN "paymentCreate" ELSE "done"
    /\ UNCHANGED <<flow, flowPaymentOrderId, restOfOrderFlows>>

\* paymentOrderId = body.data?.[0]?.paymentOrderId of a 200 response whose
\* body parses, else it stays null
FlowPaymentOrderIdOf(res) ==
    IF res.status = 200 /\ res.body.kind # "invalid"
    THEN DataFirst(res.body, "paymentOrderId")
    ELSE Null

\* res = apiPost(ENDPOINTS.PAYMENT_CREATE(orderId), {}); without a
\* paymentOrderId the payment step ends here
FlowPaymentCreate ==
    /\ flowPc = "paymentCreate"
    /\ \E res \in PaymentResponses :
         LET pid == FlowPaymentOrderIdOf(res)
         IN /\ flowCalls' = Append(flowCalls, Call("POST /payment", flowOrderId, ""))
            /\ flowPaymentOrderId' = pid
            /\ IF Truthy(pid)
               THEN /\ flowPc' = "paymentVerify"
                    /\ flowSamples' = flowSamples
               ELSE /\ flowPc' = "done"
                    /\ flowSamples' = flowSamples \o NoPaymentSamples(flow)
    /\ UNCHANGED <<flow, flowOrderStatus, flowOrderId, restOfOrderFlows>>

\* res = apiPost(ENDPOINTS.PAYMENT_VERIFY(orderId), verifyPayload) with
\* verifyPayload.razorpayOrderId = paymentOrderId
FlowPaymentVerify ==
    /\ flowPc = "paymentVerify"
    /\ \E status \in Statuses :
         /\ flowCalls' = Append(flowCalls,
                Call("POST /payment/verify", flowOrderId, flowPaymentOrderId))
         /\ flowSamples' = flowSamples \o VerifySamples(flow, status = 200)
    /\ flowPc' = "done"
    /\ UNCHANGED <<flow, flowOrderStatus, flowOrderId, flowPaymentOrderId,
                   restOfOrderFlows>>

OrderFlowInit ==
    /\ ExecutionStart
    /\ NoRun
    /\ UserPoolIdle
    /\ StressIdle
    /\ LoginFlowIdle
    /\ MixedIdle
    /\ SingleOrderIdle
    /\ DraftsIdle
    /\ PosUpdateIdle
    /\ CallbacksIdle
    /\ OtpMockStarted
    /\ flow \in OrderFlows
    /\ flowPc = IF flow = "user-journey" THEN "requestOtp" ELSE "placeOrder"
    /\ flowCalls = <<>>
    /\ flowOrderStatus = -1
    /\ flowOrderId = Null
    /\ flowPaymentOrderId = Null
    /\ flowSamples = <<>>

OrderFlowNext ==
    \/ FlowRequestOtp
    \/ FlowVerifyOtp
    \/ FlowPlaceOrder
    \/ FlowPaymentCreate
    \/ FlowPaymentVerify

OrderFlowSpec == OrderFlowInit /\ [][OrderFlowNext]_vars

(***************************************************************************)
(* The single-order variant from Step 6 on: the GET of the delivery record, *)
(* the delivery callbacks and Step 7.  The execution followed has obtained  *)
(* its orderId and paymentOrderId in Steps 1 and 2.  A channel order id is  *)
(* held as the number whose digits String() yields; 0 stands for null or    *)
(* an absent field.                                                         *)
(***************************************************************************)
restOfSingleOrder == <<lifecycle, outside, drafts, posUpdate, callbacks, otpMock, orderFlows, mixed, loginFlow, stress, userPools>>

\* the orderId of the execution followed
SingleOrderId == "o1"

\* a delivery record: deliveryOrderId and fulfillment.channel.order_id
DeliveryRecord(did, ch) == [deliveryOrderId |-> did, channelOrderId |-> ch]

\* GET /delivery/status/{orderId}: found or not, the record in an array or
\* on its own, with or without its ids
DeliveryStatusResponses ==
    {Response(s, b) :
        s \in {200, 404, 500},
        b \in {InvalidBody, NoDataBody, ArrayBody(<<>>)}
              \cup {ArrayBody(<<DeliveryRecord(d, c)>>) :
                      d \in DeliveryIds \cup {Undefined}, c \in {0, 100000}}
              \cup {ObjectBody(DeliveryRecord(d, c)) :
                      d \in DeliveryIds \cup {Undefined}, c \in {0, 100000}}}
    \cup {TimedOut}

\* delivery = deliveryData.data?.[0] || deliveryData.data, then the field f of
\* it: an empty array has no such field
DeliveryField(body, f, absent) ==
    IF body.kind \in {"array", "object"} /\ Len(body.elems) > 0
    THEN body.elems[1][f] ELSE absent

\* mutant: the status of the GET is not looked at
FetchedDeliveryId_AnyStatus(res) ==
    IF res.body.kind # "invalid"
    THEN DeliveryField(res.body, "deliveryOrderId", Undefined) ELSE Null

\* deliveryId after the GET: assigned from a 200 response whose body parses,
\* else still null
FetchedDeliveryId(res) ==
    IF res.status = 200 /\ res.body.kind # "invalid"
    THEN DeliveryField(res.body, "deliveryOrderId", Undefined) ELSE Null

\* channelOrderId after the GET
FetchedChannelOrderId(res) ==
    IF res.status = 200 /\ res.body.kind # "invalid"
    THEN DeliveryField(res.body, "channelOrderId", 0) ELSE 0

\* Step 6, up to the loop: fetch the delivery record; without a deliveryId
\* the step records a failure and returns from its group
SingleDeliveryStatus ==
    /\ singlePc = "deliveryStatus"
    /\ \E deliveryRes \in DeliveryStatusResponses,
          drawn \in ChannelOrderIds, base \in BaseTimes :
         LET did == FetchedDeliveryId(deliveryRes)
             fetched == FetchedChannelOrderId(deliveryRes)
         IN /\ singleCalls' =
                 Append(singleCalls, Call("GET /delivery/status", SingleOrderId, ""))
            /\ singleDeliveryRes' = deliveryRes
            /\ singleDeliveryId' = did
            /\ IF ~Truthy(did)
               THEN /\ singleStepSuccess' = Append(singleStepSuccess, 0)
                    /\ singleChannelOrderId' = fetched
                    /\ singleBaseTime' = singleBaseTime
                    /\ singlePc' = "verifyDelivered"
               ELSE /\ singleChannelOrderId' = IF fetched # 0 THEN fetched ELSE drawn
                    /\ singleBaseTime' = base
                    /\ singleStepSuccess' = singleStepSuccess
                    /\ singlePc' = "deliveryCallbacks"
    /\ UNCHANGED <<singleLogs, singleAllSuccess, singleCbIdx, restOfSingleOrder>>

\* Step 6: one iteration of the loop over DELIVERY_STATUS_SEQUENCE
SingleDeliveryCallback ==
    /\ singlePc = "deliveryCallbacks"
    /\ \E rstatus \in CallbackStatuses :
         LET i == singleCbIdx + 1
             status == DELIVERY_STATUS_SEQUENCE[i]
             gen == generateDeliveryCallback(SingleOrderId, singleDeliveryId,
                                             singleChannelOrderId, status, singleLogs,
                                             singleBaseTime, MinutesOffset(status))
             statusOk == rstatus = 200
             all == AllSuccessAfter(statusOk, singleAllSuccess)
         IN /\ singleCalls' =
                 Append(singleCalls, Call("POST /delivery/callback", "", status))
            /\ singleLogs' = LogsAfter(statusOk, singleLogs, gen.logs)
            /\ singleAllSuccess' = all
            /\ singleCbIdx' = i
            /\ IF i < Len(DELIVERY_STATUS_SEQUENCE)
               THEN UNCHANGED <<singlePc, singleStepSuccess>>
               ELSE /\ singleStepSuccess' =
                         Append(singleStepSuccess, IF all THEN 1 ELSE 0)
                    /\ singlePc' = "verifyDelivered"
    /\ UNCHANGED <<singleDeliveryId, singleChannelOrderId, singleBaseTime,
                   singleDeliveryRes, restOfSingleOrder>>

\* Step 7: GET the order; delivered iff its body reports DELIVERED
SingleVerifyDelivered ==
    /\ singlePc = "verifyDelivered"
    /\ \E res \in OrderGetResponses :
         /\ singleCalls' = Append(singleCalls, Call("GET /order", SingleOrderId, ""))
         /\ singleStepSuccess' =
              Append(singleStepSuccess, IF StatusDelivered(res) THEN 1 ELSE 0)
    /\ singlePc' = "done"
    /\ UNCHANGED <<singleDeliveryId, singleChannelOrderId, singleBaseTime, singleLogs,
                   singleAllSuccess, singleCbIdx, singleDeliveryRes, restOfSingleOrder>>

SingleOrderInit ==
    /\ ExecutionStart
    /\ NoRun
    /\ UserPoolIdle
    /\ StressIdle
    /\ LoginFlowIdle
    /\ MixedIdle
    /\ DraftsIdle
    /\ PosUpdateIdle
    /\ CallbacksIdle
    /\ OtpMockStarted
    /\ FlowsIdle
    /\ singlePc = "deliveryStatus"
    /\ singleCalls = <<>>
    /\ singleDeliveryId = Null
    /\ singleChannelOrderId = 0
    /\ singleBaseTime = 0
    /\ singleLogs = <<>>
    /\ singleAllSuccess = TRUE
    /\ singleCbIdx = 0
    /\ singleStepSuccess = <<>>
    /\ singleDeliveryRes = NoRes

SingleOrderNext ==
    \/ SingleDeliveryStatus
    \/ SingleDeliveryCallback
    \/ SingleVerifyDelivered

SingleOrderSpec == SingleOrderInit /\ [][SingleOrderNext]_vars

(***************************************************************************)
(* The mixed-scenario tests (load, stress, menu-stress, tracking-stress)   *)
(* in sanity mode: one VU runs a fixed number of iterations, and each      *)
(* iteration draws Math.random() to choose the traffic variant it          *)
(* executes.  Math.random() is in hundredths; what a variant then requests *)
(* is not followed here.                                                   *)
(***************************************************************************)
restOfMixed == <<lifecycle, outside, drafts, posUpdate, callbacks, otpMock, orderFlows, singleOrder, loginFlow, stress, userPools>>

MixedTests == {"load", "stress", "menu-stress", "tracking-stress"}

\* sanityScenario.iterations of each test
SanityIterations(test) ==
    CASE test = "load" -> 4
      [] test = "stress" -> 5
      [] test = "menu-stress" -> 5
      [] test = "tracking-stress" -> 3

\* Math.random(): both ends of every band the tests cut [0, 1) into
RandomHundredths ==
    {0, 29, 30, 39, 40, 49, 50, 64, 65, 69, 70, 74, 75, 79, 80, 84, 85, 89, 90, 99}

\* the branch of the load test's default function
LoadVariant(action) ==
    IF action < 40 THEN "browseMenu"
    ELSE IF action < 65 THEN "completeOrderFlow"
    ELSE IF action < 85 THEN "trackOrders"
    ELSE "otherOperations"

\* the branch of the stress test's default function
StressVariant(action) ==
    IF action < 30 THEN "stressMenu"
    ELSE IF action < 50 THEN "stressLogin"
    ELSE IF action < 75 THEN "stressOrder"
    ELSE IF action < 90 THEN "stressTracking"
    ELSE "stressMixed"

\* the branch of the menu-stress test's default function
MenuStressVariant(action) ==
    IF action < 30 THEN "fetchFullMenu"
    ELSE IF action < 50 THEN "fetchCategories"
    ELSE IF action < 70 THEN "fetchItems"
    ELSE IF action < 85 THEN "fetchAddons"
    ELSE "fetchVariations"

\* the branch of the tracking-stress test's default function; without
\* trackable orders the iteration is skipped
TrackingVariant(orderIds, action) ==
    IF Len(orderIds) = 0 THEN "skipped"
    ELSE IF action < 50 THEN "trackOrder"
    ELSE IF action < 80 THEN "getDeliveryStatus"
    ELSE "getRiderLocation"

\* the variant an iteration of a test executes
VariantOf(test, orderIds, action) ==
    CASE test = "load" -> LoadVariant(action)
      [] test = "stress" -> StressVariant(action)
      [] test = "menu-stress" -> MenuStressVariant(action)
      [] test = "tracking-stress" -> TrackingVariant(orderIds, action)

\* one iteration of the default function of the test, under per-vu-iterations
\* with vus: 1
MixedIteration ==
    /\ mixedTest \in MixedTests
    /\ mixedIteration < SanityIterations(mixedTest)
    /\ \E action \in RandomHundredths :
         mixedRan' = Append(mixedRan, VariantOf(mixedTest, mixedOrderIds, action))
    /\ mixedIteration' = mixedIteration + 1
    /\ UNCHANGED <<mixedTest, mixedOrderIds, restOfMixed>>

MixedInit ==
    /\ ExecutionStart
    /\ NoRun
    /\ UserPoolIdle
    /\ StressIdle
    /\ LoginFlowIdle
    /\ DraftsIdle
    /\ PosUpdateIdle
    /\ CallbacksIdle
    /\ OtpMockStarted
    /\ FlowsIdle
    /\ SingleOrderIdle
    /\ mixedTest \in MixedTests
    /\ mixedOrderIds \in {<<>>, <<"o1">>}
    /\ mixedIteration = 0
    /\ mixedRan = <<>>

MixedNext == MixedIteration

MixedSpec == MixedInit /\ [][MixedNext]_vars

(***************************************************************************)
(* The login stress test: the iterations of one VU, each with the groups   *)
(* '1. Request OTP' and '2. Verify OTP'.  CONFIG.RESTAURANT_ID is set.     *)
(* The Trend samples of elapsed time are not recorded.                     *)
(***************************************************************************)
restOfLoginFlow == <<lifecycle, outside, drafts, posUpdate, callbacks, otpMock, orderFlows, singleOrder, mixed, stress, userPools>>

\* where the default function goes on after the group '1. Request OTP':
\* its `return` leaves the group's callback only, and the group
\* '2. Verify OTP' follows in either case
AfterRequestOtp(success) == "verifyOtp"

\* the start of an iteration and its group '1. Request OTP'
LoginRequestOtp ==
    /\ loginFlowPc = "requestOtp"
    /\ loginsFinished < MaxIterations
    /\ \E status \in Statuses :
         LET success == status = 200
         IN /\ loginFlowCalls' = <<Call("POST /login/otp", "", "")>>
            /\ otpStatus' = status
            /\ loginsFailed' = IF success THEN loginsFailed ELSE loginsFailed + 1
            /\ loginFlowRate' = IF success THEN loginFlowRate ELSE Append(loginFlowRate, 0)
            /\ loginFlowPc' = AfterRequestOtp(success)
            /\ loginsFinished' =
                 IF AfterRequestOtp(success) = "requestOtp"
                 THEN loginsFinished + 1 ELSE loginsFinished
    /\ loginFlowCustomerId' = Null
    /\ loginFlowSuccess' = FALSE
    /\ UNCHANGED <<loginsCompleted, restOfLoginFlow>>

\* customerId = body?.data?.[0]?.id of a 200 response; res.json() throws on
\* a body that is not JSON
VerifiedCustomerId(res) ==
    IF res.status = 200 /\ res.body.kind # "invalid"
    THEN DataFirst(res.body, "id") ELSE Null

\* the group '2. Verify OTP', the sample added after the groups, and the end
\* of the iteration
LoginVerifyOtp ==
    /\ loginFlowPc = "verifyOtp"
    /\ \E res \in VerifyOtpResponses :
         LET cid == VerifiedCustomerId(res)
             success == Truthy(cid)
         IN /\ loginFlowCalls' = Append(loginFlowCalls, Call("POST /login/verify-otp", "", ""))
            /\ loginFlowCustomerId' = cid
            /\ loginFlowSuccess' = success
            /\ loginsCompleted' = IF success THEN loginsCompleted + 1 ELSE loginsCompleted
            /\ loginsFailed' = IF success THEN loginsFailed ELSE loginsFailed + 1
            /\ loginFlowRate' = Append(loginFlowRate, IF success THEN 1 ELSE 0)
    /\ loginFlowPc' = "requestOtp"
    /\ loginsFinished' = loginsFinished + 1
    /\ UNCHANGED <<otpStatus, restOfLoginFlow>>

LoginFlowInit ==
    /\ ExecutionStart
    /\ NoRun
    /\ UserPoolIdle
    /\ StressIdle
    /\ DraftsIdle
    /\ PosUpdateIdle
    /\ CallbacksIdle
    /\ OtpMockStarted
    /\ FlowsIdle
    /\ SingleOrderIdle
    /\ MixedIdle
    /\ loginFlowPc = "requestOtp"
    /\ loginFlowCalls = <<>>
    /\ otpStatus = -1
    /\ loginFlowCustomerId = Null
    /\ loginFlowSuccess = FALSE
    /\ loginFlowRate = <<>>
    /\ loginsCompleted = 0
    /\ loginsFailed = 0
    /\ loginsFinished = 0

LoginFlowNext ==
    \/ LoginRequestOtp
    \/ LoginVerifyOtp

LoginFlowSpec == LoginFlowInit /\ [][LoginFlowNext]_vars

(***************************************************************************)
(* The stress test: the iterations of one VU.  Each iteration draws        *)
(* Math.random() and runs one of stressMenu, stressLogin, stressOrder,     *)
(* stressTracking and stressMixed, which add to success_rate, error_rate,  *)
(* requests_per_second and the counters.  The Trend samples of elapsed     *)
(* time are not recorded.                                                  *)
(***************************************************************************)
restOfStress == <<lifecycle, outside, drafts, posUpdate, callbacks, otpMock, orderFlows, singleOrder, mixed, loginFlow, userPools>>

\* what one operation adds: samples of success_rate and error_rate, how many
\* samples of requests_per_second, and the counters
Added(success, error, requests, timedOut, orders) ==
    [success |-> success, error |-> error, requests |-> requests,
     timedOut |-> timedOut, orders |-> orders]

\* successRate.add(1); errorRate.add(0), or the opposite pair
Pair(ok) == IF ok THEN [success |-> <<1>>, error |-> <<0>>]
            ELSE [success |-> <<0>>, error |-> <<1>>]

\* the iteration's operation has added `a`
StressRecord(op, a) ==
    /\ Len(stressRan) < MaxIterations
    /\ stressRan' = Append(stressRan, op)
    /\ successRate' = successRate \o a.success
    /\ errorRate' = errorRate \o a.error
    /\ requestsPerSecond' = requestsPerSecond + a.requests
    /\ timeouts' = timeouts + a.timedOut
    /\ ordersAttempted' = ordersAttempted + (IF a.orders = "none" THEN 0 ELSE 1)
    /\ ordersSucceeded' = ordersSucceeded + (IF a.orders = "succeeded" THEN 1 ELSE 0)
    /\ ordersFailed' = ordersFailed + (IF a.orders = "failed" THEN 1 ELSE 0)
    /\ UNCHANGED <<stressOrderIds, restOfStress>>

\* the draw of the default function selects `op`
Selects(op) == \E action \in RandomHundredths : StressVariant(action) = op

\* stressMenu(restaurantId)
StressMenu ==
    /\ Selects("stressMenu")
    /\ \E status \in Statuses :
         StressRecord("stressMenu",
                      Added(Pair(status = 200).success, Pair(status = 200).error, 1,
                            IF status = 0 THEN 1 ELSE 0, "none"))

\* stressLogin(restaurantId): a failed OTP request ends it before the
\* requests_per_second sample
StressLogin ==
    /\ Selects("stressLogin")
    /\ \E otp \in Statuses, verify \in Statuses :
         StressRecord("stressLogin",
                      IF otp # 200
                      THEN Added(<<0>>, <<1>>, 0, 0, "none")
                      ELSE Added(Pair(verify = 200).success, Pair(verify = 200).error,
                                 1, 0, "none"))

\* what the early failure paths of stressOrder add: ordersFailed.add(1) and
\* errorRate.add(1)
OrderFailureAdds == Added(<<>>, <<1>>, 0, 0, "failed")

\* stressOrder(restaurantId, menuData) with the answers to its five requests;
\* a later request is only made if the earlier ones yielded what it needs
StressOrderAdds(otp, loginRes, placed, created, verify) ==
    LET cid == IF loginRes.status = 200 /\ loginRes.body.kind # "invalid"
               THEN DataField(loginRes.body, "id") ELSE Null
        pid == FlowPaymentOrderIdOf(created)
    IN IF otp # 200 \/ ~Truthy(cid) \/ ~Truthy(extractId(placed))
       THEN OrderFailureAdds
       ELSE IF ~Truthy(pid)
       THEN [OrderFailureAdds EXCEPT !.requests = 1]
       ELSE IF verify = 200
       THEN Added(<<1>>, <<0>>, 1, 0, "succeeded")
       ELSE [OrderFailureAdds EXCEPT !.requests = 1]

\* every outcome of stressOrder
StressOrderOutcomes ==
    {StressOrderAdds(otp, loginRes, placed, created, verify) :
        otp \in Statuses, loginRes \in VerifyOtpResponses,
        placed \in FlowOrderResponses, created \in PaymentResponses,
        verify \in Statuses}

StressOrder ==
    /\ Selects("stressOrder")
    /\ \E a \in StressOrderOutcomes : StressRecord("stressOrder", a)

\* stressTracking(orderIds): GET of one of the orders, where 404 counts as
\* success, or of the order list
StressTracking ==
    /\ Selects("stressTracking")
    /\ \E status \in Statuses :
         LET ok == IF Len(stressOrderIds) > 0
                   THEN status \in {200, 404} ELSE status = 200
         IN StressRecord("stressTracking",
                         Added(Pair(ok).success, Pair(ok).error, 1, 0, "none"))

\* stressMixed(): one of five list requests
StressMixed ==
    /\ Selects("stressMixed")
    /\ \E status \in Statuses :
         StressRecord("stressMixed",
                      Added(Pair(status = 200).success, Pair(status = 200).error, 1,
                            IF status = 0 THEN 1 ELSE 0, "none"))

StressInit ==
    /\ ExecutionStart
    /\ NoRun
    /\ UserPoolIdle
    /\ DraftsIdle
    /\ PosUpdateIdle
    /\ CallbacksIdle
    /\ OtpMockStarted
    /\ FlowsIdle
    /\ SingleOrderIdle
    /\ MixedIdle
    /\ LoginFlowIdle
    /\ stressOrderIds \in {<<>>, <<"o1">>}
    /\ stressRan = <<>>
    /\ successRate = <<>>
    /\ errorRate = <<>>
    /\ requestsPerSecond = 0
    /\ timeouts = 0
    /\ ordersAttempted = 0
    /\ ordersSucceeded = 0
    /\ ordersFailed = 0

StressNext ==
    \/ StressMenu
    \/ StressLogin
    \/ StressOrder
    \/ StressTracking
    \/ StressMixed

StressSpec == StressInit /\ [][StressNext]_vars

(***************************************************************************)
(* The user pool: generateUserPool builds it once, and each concurrently   *)
(* running actor takes its user with getUserFromPool(userPool, __VU).      *)
(* Actors start in any order.  A string of digits is a sequence of digits. *)
(***************************************************************************)
restOfUserPools == <<lifecycle, outside, drafts, posUpdate, callbacks, otpMock, orderFlows, singleOrder, mixed, loginFlow, stress>>

\* const MOBILE_PREFIX = '9800000'
MOBILE_PREFIX == <<9, 8, 0, 0, 0, 0, 0>>

RECURSIVE Digits(_)
\* String(i) of a non-negative integer
Digits(i) == IF i < 10 THEN <<i>> ELSE Append(Digits(i \div 10), i % 10)

RECURSIVE PadStart(_, _, _)
\* s.padStart(targetLength, padString) with a one-character padString
PadStart(s, targetLength, pad) ==
    IF Len(s) >= targetLength THEN s ELSE PadStart(<<pad>> \o s, targetLength, pad)

\* the user pushed for index i
PoolUser(i) ==
    [index |-> i,
     name |-> <<"LoadTest User ", Digits(i)>>,
     mobile |-> MOBILE_PREFIX \o PadStart(Digits(i), 3, 0)]

\* generateUserPool(count): users[0] .. users[count - 1]
generateUserPool(count) == [k \in 1..count |-> PoolUser(k - 1)]

\* mutant: every actor is handed the first user
getUserFromPool_First(users, vuId) == users[1]

\* getUserFromPool(users, vuId): users[vuId % users.length]
getUserFromPool(users, vuId) == users[(vuId % Len(users)) + 1]

\* const userPool = generateUserPool(count), when the script is loaded
GenerateUserPool ==
    /\ userPool = <<>>
    /\ \E count \in 1..MaxPoolSize : userPool' = generateUserPool(count)
    /\ UNCHANGED <<actors, actorUser, restOfUserPools>>

\* an actor starts its iteration: const user = getUserFromPool(userPool, __VU)
ActorTakesUser ==
    /\ userPool # <<>>
    /\ \E vuId \in (1..actors) \ DOMAIN actorUser :
         actorUser' = [v \in DOMAIN actorUser \cup {vuId} |->
                          IF v = vuId THEN getUserFromPool(userPool, vuId)
                          ELSE actorUser[v]]
    /\ UNCHANGED <<userPool, actors, restOfUserPools>>

UserPoolInit ==
    /\ ExecutionStart
    /\ NoRun
    /\ DraftsIdle
    /\ PosUpdateIdle
    /\ CallbacksIdle
    /\ OtpMockStarted
    /\ FlowsIdle
    /\ SingleOrderIdle
    /\ MixedIdle
    /\ LoginFlowIdle
    /\ StressIdle
    /\ userPool = <<>>
    /\ actors \in 1..MaxActors
    /\ actorUser = <<>>

UserPoolNext ==
    \/ GenerateUserPool
    \/ ActorTakesUser

UserPoolSpec == UserPoolInit /\ [][UserPoolNext]_vars

(***************************************************************************)
(* Properties                                                              *)
(***************************************************************************)
\* endpoints called so far, in order
Eps == [i \in 1..Len(calls) |-> calls[i].ep]

Issued(ep) == \E i \in 1..Len(calls) : calls[i].ep = ep

\* a parsed body carries a usable value of field f at data[0] or at data
BodyYields(body, f) ==
    \/ /\ body.kind = "array"
       /\ Len(body.elems) > 0
       /\ body.elems[1][f] \notin {Undefined, Null, ""}
    \/ /\ body.kind = "object"
       /\ body.elems[1][f] \notin {Undefined, Null, ""}

BrowseAndLoginEps ==
    <<"GET /menu/category", "GET /addon-group", "POST /login/otp",
      "POST /login/verify-otp">>

\* endpoints of the phases after Login
PostLoginEps ==
    {"GET /delivery/quote", "POST /order", "POST /payment", "POST /payment/verify",
     "POST /pos/order/callback", "POST /delivery/callback", "GET /order",
     "GET /order/track"}

\* endpoints of the phases after CreatePayment
PostPaymentEps ==
    {"POST /payment/verify", "POST /pos/order/callback", "POST /delivery/callback",
     "GET /order", "GET /order/track"}

\* C1: if the Login phase does not yield a customer id (the OTP request is
\* not answered with 200, or the verify body is unparsable or has neither
\* data[0].id nor data.id), no POST /order is issued in that execution.
C1_NoOrderWithoutCustomerId ==
    (\/ otpRes # NoRes /\ otpRes.status # 200
     \/ verifyRes # NoRes /\ ~BodyYields(verifyRes.body, "id"))
    => /\ ~Issued("POST /order")
       /\ pc = "done"
       /\ lifecycleSuccessRate = <<0>>

\* the verify body was parsed and held no id: the execution has ended after
\* the fourth call
C1_Witness ==
    /\ pc = "done"
    /\ verifyRes.status = 200
    /\ verifyRes.body.kind = "nodata"
    /\ Len(calls) = 4

\* C2 (as claimed): for every verify response whose status is not 200,
\* whatever its body, the workflow aborts after Login and issues no order,
\* payment, POS, delivery or tracking call.
C2_AbortsOnNon200Verify ==
    (verifyRes # NoRes /\ verifyRes.status # 200)
    => /\ pc = "done"
       /\ \A i \in 1..Len(calls) : calls[i].ep \notin PostLoginEps

\* C3 (as claimed): with 401 on login-verify the execution ends having made
\* exactly 2 HTTP calls and no call to an order or payment endpoint.
C3_TwoCallsOn401 ==
    (verifyRes.status = 401 /\ pc = "done")
    => /\ Len(calls) = 2
       /\ ~Issued("POST /order")
       /\ ~Issued("POST /payment")
       /\ ~Issued("POST /payment/verify")

\* C3 (amended): with 401 on login-verify the execution has made exactly the
\* 4 calls menu, addons, OTP request, OTP verify when Login ends; when the
\* 401 response yields no customer id it ends there, with these 4 calls and
\* no call to an order or payment endpoint.
C3_FourCallsOn401 ==
    verifyRes.status = 401
    => /\ Len(calls) >= 4
       /\ [i \in 1..4 |-> calls[i].ep] = BrowseAndLoginEps
       /\ ~BodyYields(verifyRes.body, "id")
          => /\ pc = "done"
             /\ Len(calls) = 4
             /\ lifecycleSuccessRate = <<0>>

C3_Witness ==
    /\ verifyRes.status = 401
    /\ verifyRes.body.kind = "object"
    /\ ~BodyYields(verifyRes.body, "id")
    /\ pc = "done"

\* the status string a parsed body reports: data[0].status, else data.status
ReportedStatus(body) ==
    CASE body.kind = "array" /\ Len(body.elems) > 0 -> body.elems[1].status
      [] body.kind = "object" -> body.elems[1].status
      [] OTHER -> Undefined

\* the execution went through UserTracking and has ended
TrackedAndDone == pc = "done" /\ getRes # NoRes

\* overall success was marked: sample 1 and orders_delivered incremented
MarkedSuccess == lifecycleSuccessRate = <<1>> /\ ordersDelivered = 1

\* overall success was not marked: sample 0 and orders_delivered untouched
MarkedFailure == lifecycleSuccessRate = <<0>> /\ ordersDelivered = 0

\* C4 (as claimed): UserTracking marks overall success if and only if the
\* status string in the body of GET /order/{id} is exactly "DELIVERED", for
\* every HTTP status and body.
C4_SuccessIffDeliveredString ==
    TrackedAndDone
    => /\ MarkedSuccess <=> ReportedStatus(getRes.body) = "DELIVERED"
       /\ MarkedSuccess \/ MarkedFailure

\* C4 (amended): UserTracking marks overall success if and only if GET
\* /order/{id} returned status 200 and the status string in its body is
\* exactly "DELIVERED".
C4_SuccessIff200AndDelivered ==
    TrackedAndDone
    => /\ MarkedSuccess <=> /\ getRes.status = 200
                            /\ ReportedStatus(getRes.body) = "DELIVERED"
       /\ MarkedSuccess \/ MarkedFailure

\* a 404 whose body says DELIVERED was fetched and success was not marked
C4_Witness ==
    /\ TrackedAndDone
    /\ getRes.status = 404
    /\ ReportedStatus(getRes.body) = "DELIVERED"
    /\ MarkedFailure

\* C5: no POST /payment/{orderId} unless CreateOrder returned 200 with an
\* extractable order id; no payment-verify, POS, delivery-callback or
\* tracking call unless CreatePayment returned 200 with an extractable
\* paymentOrderId; in both failure cases the execution ends with a
\* lifecycle_success_rate sample of 0.
C5_HardDependencyGating ==
    LET orderOk == orderRes.status = 200 /\ BodyYields(orderRes.body, "id")
        payOk == payRes.status = 200 /\ BodyYields(payRes.body, "paymentOrderId")
    IN /\ Issued("POST /payment") => orderOk
       /\ (\E i \in 1..Len(calls) : calls[i].ep \in PostPaymentEps) => payOk
       /\ (orderRes # NoRes /\ ~orderOk) => pc = "done" /\ lifecycleSuccessRate = <<0>>
       /\ (payRes # NoRes /\ ~payOk) => pc = "done" /\ lifecycleSuccessRate = <<0>>

\* CreatePayment answered 200 without a paymentOrderId and the execution ended
C5_Witness ==
    /\ pc = "done"
    /\ payRes.status = 200
    /\ ~BodyYields(payRes.body, "paymentOrderId")
    /\ lifecycleSuccessRate = <<0>>
    /\ Issued("POST /payment")

\* the calls of Phases 6-10, in order
SoftTailEps ==
    <<"POST /payment/verify", "POST /pos/order/callback",
      "POST /pos/order/callback">>
    \o [i \in 1..Len(DELIVERY_STATUS_SEQUENCE) |-> "POST /delivery/callback"]
    \o <<"GET /order", "GET /order/track">>

\* the position of POST /payment/{orderId} among the calls of an execution
PaymentCallIndex == Len(BrowseAndLoginEps) + 3

\* CreatePayment was answered 200 with an extractable paymentOrderId
PaymentOrderIdObtained ==
    /\ payRes # NoRes
    /\ payRes.status = 200
    /\ BodyYields(payRes.body, "paymentOrderId")

\* Phases 6-10 have all run: every one of their calls was issued, in order
\* (the POS status codes of ACCEPTED and READY_FOR_DELIVERY are 3 and 5)
SoftTailIssued ==
    /\ Len(calls) = PaymentCallIndex + Len(SoftTailEps)
    /\ SubSeq(Eps, PaymentCallIndex + 1, Len(calls)) = SoftTailEps
    /\ calls[PaymentCallIndex + 2].data.status = "3"
    /\ calls[PaymentCallIndex + 3].data.status = "5"

\* C6: once a paymentOrderId has been obtained, the workflow always goes on
\* to issue VerifyPayment, the POS ACCEPTED callback, the POS
\* READY_FOR_DELIVERY callback, every delivery callback and GET order / GET
\* track, whatever VerifyPayment, PosAccept and ReadyForDelivery return.
C6_SoftPhasesProceed ==
    PaymentOrderIdObtained ~> (pc = "done" /\ SoftTailIssued)

\* VerifyPayment and both POS callbacks failed and the workflow still ran to
\* the end of UserTracking
C6_Witness ==
    /\ pc = "done"
    /\ PaymentOrderIdObtained
    /\ paymentSuccessRate = <<1, 0>>
    /\ posSuccessRate = <<0, 0>>
    /\ SoftTailIssued

\* the fulfillment statuses of the delivery callbacks sent so far
SentStatuses == [i \in 1..Len(sent) |-> sent[i].fulfillment.status]

\* C7: one delivery callback is POSTed for every status of the sequence, in
\* order; a non-200 response never prevents the following callbacks; the
\* delivery_success_rate sample is 1 iff every callback returned 200; and
\* UserTracking is executed afterwards in either case.
C7_AllCallbacksSent ==
    /\ Len(sent) <= Len(DELIVERY_STATUS_SEQUENCE)
    /\ SentStatuses = SubSeq(DELIVERY_STATUS_SEQUENCE, 1, Len(sent))
    /\ Len(cbRes) = Len(sent)
    /\ (Len(sent) > 0 /\ Len(sent) < Len(DELIVERY_STATUS_SEQUENCE))
       => pc = "deliveryCallbacks" /\ deliverySuccessRate = << >>
    /\ Len(sent) = Len(DELIVERY_STATUS_SEQUENCE)
       => /\ pc \in {"orderGet", "orderTrack", "done"}
          /\ deliverySuccessRate =
               <<IF \A i \in 1..Len(cbRes) : cbRes[i] = 200 THEN 1 ELSE 0>>
          /\ pc = "done" => Issued("GET /order") /\ Issued("GET /order/track")

\* the second callback was answered 500, the other three followed and
\* UserTracking ran
C7_Witness ==
    /\ pc = "done"
    /\ Len(sent) = Len(DELIVERY_STATUS_SEQUENCE)
    /\ cbRes[2] = 500
    /\ deliverySuccessRate = <<0>>
    /\ Issued("GET /order/track")

\* the logs array of the i-th callback sent
SentLogs(i) == sent[i].fulfillment.logs

\* the last callback before the n-th that was answered 200 (0 if none)
LastAcknowledged(n) ==
    LET acked == {i \in 1..(n - 1) : cbRes[i] = 200}
    IN IF acked = {} THEN 0
       ELSE CHOOSE i \in acked : \A j \in acked : j <= i

\* C8 (as claimed): whatever the responses to earlier callbacks, the logs in
\* callback N are the logs in callback N-1 plus exactly one new entry.
C8_LogsExtendPrevious ==
    \A n \in 2..Len(sent) :
        /\ Len(SentLogs(n)) = Len(SentLogs(n - 1)) + 1
        /\ SubSeq(SentLogs(n), 1, Len(SentLogs(n)) - 1) = SentLogs(n - 1)

\* C8 (amended): the logs in callback N are the logs of the latest earlier
\* callback that was answered 200 (no entries if there is none) plus exactly
\* one new entry, the one of callback N's own status.
C8_LogsExtendLastAcknowledged ==
    \A n \in 1..Len(sent) :
        LET k == LastAcknowledged(n)
            prior == IF k = 0 THEN << >> ELSE SentLogs(k)
        IN /\ Len(SentLogs(n)) = Len(prior) + 1
           /\ SubSeq(SentLogs(n), 1, Len(prior)) = prior
           /\ SentLogs(n)[Len(prior) + 1].status = DELIVERY_STATUS_SEQUENCE[n]

\* the second callback was answered 500 and the third carries the logs of the
\* first plus its own entry
C8_Witness ==
    /\ Len(sent) >= 3
    /\ cbRes[1] = 200
    /\ cbRes[2] = 500
    /\ Len(SentLogs(3)) = 2

\* C9 (as claimed): every delivery callback carries a timestamp strictly
\* greater than that of the callback sent before it.
C9_TimestampsStrictlyIncrease ==
    \A n \in 2..Len(sent) : IsoLess(sent[n - 1].updated_at, sent[n].updated_at)

\* C9 (amended): every delivery callback carries a timestamp strictly
\* greater than that of the callback before it, except OUT_FOR_DELIVERY,
\* which carries the same timestamp as PICKED_UP.
C9_TimestampsIncreaseExceptOutForDelivery ==
    \A n \in 2..Len(sent) :
        IF sent[n].fulfillment.status = "OUT_FOR_DELIVERY"
        THEN /\ sent[n - 1].fulfillment.status = "PICKED_UP"
             /\ sent[n].updated_at = sent[n - 1].updated_at
        ELSE IsoLess(sent[n - 1].updated_at, sent[n].updated_at)

\* the whole sequence was sent, the tie and the last strict step included
C9_Witness ==
    /\ Len(sent) = Len(DELIVERY_STATUS_SEQUENCE)
    /\ sent[4].updated_at = sent[3].updated_at
    /\ IsoLess(sent[4].updated_at, sent[5].updated_at)

\* C10: along the delivery status sequence updated_at and the timestamp of
\* the newly appended log entry never decrease, and the timestamps of the
\* entries inside any callback's logs array are in non-decreasing order.
C10_TimestampsNeverDecrease ==
    /\ \A n \in 1..Len(sent) :
          /\ SentLogs(n)[Len(SentLogs(n))].timestamp = sent[n].updated_at
          /\ \A i \in 2..Len(SentLogs(n)) :
                IsoLeq(SentLogs(n)[i - 1].timestamp, SentLogs(n)[i].timestamp)
    /\ \A n \in 2..Len(sent) : IsoLeq(sent[n - 1].updated_at, sent[n].updated_at)

\* all five callbacks were answered 200: the last one carries five log entries
C10_Witness ==
    /\ Len(sent) = Len(DELIVERY_STATUS_SEQUENCE)
    /\ Len(SentLogs(Len(sent))) = Len(DELIVERY_STATUS_SEQUENCE)
    /\ baseTime = MaxBaseTime

\* the DeliveryCallbacks phase is over and every callback was answered 200
AllCallbacksAccepted ==
    /\ deliverySuccessRate # << >>
    /\ \A i \in 1..Len(cbRes) : cbRes[i] = 200

\* the statuses of the entries of the accumulated log array, in order
LogStatuses == [i \in 1..Len(logs) |-> logs[i].status]

FullRunEps ==
    BrowseAndLoginEps \o <<"GET /delivery/quote", "POST /order", "POST /payment">>
    \o SoftTailEps

\* some answer received so far was not 200 with a valid body: a failed OTP
\* request, a verify / order / payment answer that is not 200 or lacks its
\* id, a failed payment verify, POS callback or delivery callback, or a final
\* GET that is not 200 with status DELIVERED
BackendFailed ==
    \/ otpRes # NoRes /\ otpRes.status # 200
    \/ verifyRes # NoRes
       /\ ~(verifyRes.status = 200 /\ BodyYields(verifyRes.body, "id"))
    \/ orderRes # NoRes
       /\ ~(orderRes.status = 200 /\ BodyYields(orderRes.body, "id"))
    \/ payRes # NoRes
       /\ ~(payRes.status = 200 /\ BodyYields(payRes.body, "paymentOrderId"))
    \/ \E i \in 1..Len(paymentSuccessRate) : paymentSuccessRate[i] # 1
    \/ \E i \in 1..Len(posSuccessRate) : posSuccessRate[i] # 1
    \/ \E i \in 1..Len(cbRes) : cbRes[i] # 200
    \/ getRes # NoRes
       /\ ~(getRes.status = 200 /\ ReportedStatus(getRes.body) = "DELIVERED")

\* every phase from Browse to UserTracking has run, the execution has ended
\* and overall success was reported
CompletedWithSuccess ==
    /\ pc = "done"
    /\ Eps = FullRunEps
    /\ MarkedSuccess
    /\ lifecycleSuccess
    /\ totalLifecycleTime = 1

\* C12: against a backend that answers every call with 200 and a valid body
\* (ids present, order status DELIVERED on the final GET) an execution runs
\* every phase from Browse to UserTracking, terminates and reports overall
\* success: a behaviour in which the backend never fails reaches that end.
C12_HappyPathSucceeds == <>(BackendFailed \/ CompletedWithSuccess)

\* the end of an execution in which no answer was a failure
C12_Witness ==
    /\ ~BackendFailed
    /\ CompletedWithSuccess
    /\ loginSuccessRate = <<1>>
    /\ orderSuccessRate = <<1>>
    /\ deliverySuccessRate = <<1>>

\* neither lifecycle metric has a sample yet
NothingRecorded == lifecycleSuccessRate = << >> /\ totalLifecycleTime = 0

\* each lifecycle metric has exactly one sample
RecordedOnce == Len(lifecycleSuccessRate) = 1 /\ totalLifecycleTime = 1

\* C13: every execution, on every path and for every combination of
\* responses, terminates, and when it returns it has recorded exactly one
\* lifecycle_success_rate sample and exactly one total_lifecycle_duration
\* sample (none while it is still running).
C13_TerminatesWithOneSample ==
    /\ [](IF pc = "done" THEN RecordedOnce ELSE NothingRecorded)
    /\ <>(pc = "done")

\* an execution that returned at the gate after CreateOrder
C13_Witness ==
    /\ pc = "done"
    /\ RecordedOnce
    /\ Eps = BrowseAndLoginEps \o <<"GET /delivery/quote", "POST /order">>

\* how many of the calls issued so far went to endpoint ep
TimesCalled(ep) == Cardinality({i \in 1..Len(calls) : calls[i].ep = ep})

\* C14: there is no retry: every call of a phase is attempted exactly once,
\* and after a failed response the same request is never issued again.  No
\* two calls of an execution are the same request, an endpoint is called once
\* (the POS callback twice, for ACCEPTED and READY_FOR_DELIVERY; the delivery
\* callback once per status), and a phase that has run has made its call.
C14_NoRetry ==
    /\ \A i, j \in 1..Len(calls) : i # j => calls[i] # calls[j]
    /\ \A ep \in {Eps[i] : i \in 1..Len(calls)} :
         TimesCalled(ep) <= CASE ep = "POST /pos/order/callback" -> 2
                              [] ep = "POST /delivery/callback" ->
                                   Len(DELIVERY_STATUS_SEQUENCE)
                              [] OTHER -> 1
    /\ Len(loginSuccessRate) = TimesCalled("POST /login/verify-otp")
         + (IF otpRes # NoRes /\ otpRes.status # 200 THEN 1 ELSE 0)
    /\ Len(orderSuccessRate) = TimesCalled("POST /order")
    /\ Len(paymentSuccessRate) =
         TimesCalled("POST /payment") + TimesCalled("POST /payment/verify")
    /\ Len(posSuccessRate) = TimesCalled("POST /pos/order/callback")
    /\ Len(cbRes) = TimesCalled("POST /delivery/callback")

\* the payment verify, a POS callback and a delivery callback failed and the
\* execution ended with each of them issued once
C14_Witness ==
    /\ pc = "done"
    /\ paymentSuccessRate = <<1, 0>>
    /\ posSuccessRate = <<0, 1>>
    /\ cbRes[1] = 500
    /\ TimesCalled("POST /payment/verify") = 1
    /\ TimesCalled("POST /delivery/callback") = Len(DELIVERY_STATUS_SEQUENCE)

\* the position of the first delivery callback among the calls
FirstCallbackIndex == PaymentCallIndex + 4

\* C15: the HTTP calls of an execution are issued strictly in program order
\* (menu, addons, OTP request, OTP verify, quote, order create, payment
\* create, payment verify, POS ACCEPTED, POS READY_FOR_DELIVERY, the delivery
\* callbacks in sequence order, order get, order track): the calls issued so
\* far are always a prefix of that list.  No call is in flight when the next
\* one is issued: every call issued so far has returned its answer.
C15_ProgramOrder ==
    /\ Len(calls) <= Len(FullRunEps)
    /\ Eps = SubSeq(FullRunEps, 1, Len(calls))
    /\ Len(calls) >= PaymentCallIndex + 2
       => calls[PaymentCallIndex + 2].data.status = "3"
    /\ Len(calls) >= PaymentCallIndex + 3
       => calls[PaymentCallIndex + 3].data.status = "5"
    /\ \A i \in 1..Len(DELIVERY_STATUS_SEQUENCE) :
         Len(calls) >= FirstCallbackIndex + i - 1
         => calls[FirstCallbackIndex + i - 1].data = DELIVERY_STATUS_SEQUENCE[i]
    /\ Issued("POST /login/otp") <=> otpRes # NoRes
    /\ Issued("POST /login/verify-otp") <=> verifyRes # NoRes
    /\ Issued("POST /order") <=> orderRes # NoRes
    /\ Issued("POST /payment") <=> payRes # NoRes
    /\ Issued("GET /order") <=> getRes # NoRes
    /\ Len(cbRes) = TimesCalled("POST /delivery/callback")

\* a full run that did not end in success, all calls issued
C15_Witness ==
    /\ pc = "done"
    /\ Len(calls) = Len(FullRunEps)
    /\ lifecycleSuccessRate = <<0>>
    /\ calls[FirstCallbackIndex + 4].data = "DELIVERED"

AddressIdentifier(a) == IF a.id \notin {Undefined, Null, ""} THEN a.id ELSE a._id

\* the addresses GET /address listed (none unless it answered 200 with a list)
ListedAddresses ==
    IF addrListRes.status = 200 /\ addrListRes.body.kind = "array"
    THEN addrListRes.body.elems ELSE << >>

\* the id POST /address returned for the address it created, if any
CreatedAddressId ==
    IF addrCreateRes.status = 200 /\ addrCreateRes.body.kind = "object"
    THEN AddressIdentifier(addrCreateRes.body.elems[1]) ELSE Undefined

\* the address the order draft should carry: the default address if one is
\* listed, else the first listed, else the created one, else the fallback
ExpectedAddressId ==
    LET listed == ListedAddresses
        defaults == {i \in 1..Len(listed) : listed[i].isDefault}
    IN IF defaults # {}
       THEN AddressIdentifier(listed[CHOOSE i \in defaults : \A j \in defaults : i <= j])
       ELSE IF Len(listed) > 0 THEN AddressIdentifier(listed[1])
       ELSE IF CreatedAddressId \notin {Undefined, Null, ""} THEN CreatedAddressId
       ELSE "106335"

\* the Login phase yielded a customer id
LoggedIn == verifyRes # NoRes /\ BodyYields(verifyRes.body, "id")

\* C17: the Address+Quote phase never aborts the workflow: after a successful
\* Login CreateOrder is always issued, whatever the address list, address
\* create and quote calls return, and the addressId in the order draft is
\* never empty: it is the default address if one is listed, else the first
\* listed address, else the newly created address, else '106335'.
C17_AddressNeverAbortsAndResolves ==
    /\ (LoggedIn /\ pc = "done") => Issued("POST /order")
    /\ \A i \in 1..Len(calls) :
         calls[i].ep = "POST /order"
         => /\ calls[i].data.addressId \notin {Undefined, Null, ""}
            /\ calls[i].data.addressId = ExpectedAddressId

\* C18: a missing restaurant id is a fatal setup failure: setup throws
\* before any actor iteration starts, so no workflow phase and no workflow
\* HTTP call is ever executed in that run.
C18_NoIterationWithoutRestaurant ==
    /\ RESTAURANT_ID = ""
       => /\ setupState \in {"notRun", "thrown"}
          /\ iterationsStarted = 0
          /\ activeVUs = 0
          /\ iterationsCompleted = 0
          /\ calls = << >>
    /\ iterationsStarted > 0 => setupState = "returned" /\ RESTAURANT_ID # ""

\* setup has thrown in a run without restaurant id
C18_Witness ==
    /\ RESTAURANT_ID = ""
    /\ setupState = "thrown"
    /\ iterationsStarted = 0

\* the run is over: no execution is in progress and none can start
RunOver ==
    /\ setupState # "notRun"
    /\ activeVUs = 0
    /\ \/ setupState = "thrown"
       \/ maxDurationReached
       \/ iterationsStarted = ORDER_COUNT

\* C20 (as claimed): in multi mode at most min(50, ORDER_COUNT) executions
\* are in progress at any time, and the run produces exactly ORDER_COUNT
\* completed executions regardless of how long the executions take.
C20_ExactlyOrderCountCompleted ==
    /\ activeVUs <= (IF ORDER_COUNT < 50 THEN ORDER_COUNT ELSE 50)
    /\ (RunOver /\ setupState = "returned") => iterationsCompleted = ORDER_COUNT

\* C20 (amended): in multi mode at most min(50, ORDER_COUNT) executions are
\* in progress at any time and at most ORDER_COUNT are started; a run whose
\* setup returned completes exactly ORDER_COUNT executions if they all
\* return before maxDuration (60 minutes) elapses; the executions in
\* progress at that moment are interrupted and the rest never start, so the
\* run then completes fewer than ORDER_COUNT.
C20_OrderCountUnlessMaxDuration ==
    /\ activeVUs <= (IF ORDER_COUNT < 50 THEN ORDER_COUNT ELSE 50)
    /\ iterationsStarted <= ORDER_COUNT
    /\ iterationsStarted = activeVUs + iterationsCompleted + iterationsInterrupted
    /\ (RunOver /\ setupState = "returned" /\ ~maxDurationReached)
       => iterationsCompleted = ORDER_COUNT
    /\ (maxDurationReached /\ iterationsCompleted = ORDER_COUNT)
       => iterationsInterrupted = 0
    /\ ~maxDurationReached => iterationsInterrupted = 0

\* a run of more than 50 orders with the whole pool busy, and orders waiting
C20_Witness ==
    /\ ORDER_COUNT > 50
    /\ activeVUs = 50
    /\ iterationsStarted < ORDER_COUNT
    /\ ~maxDurationReached

\* C19: with several actors running concurrently and interleaving at every
\* HTTP call, each request that carries a customerId, orderId,
\* paymentOrderId, delivery id or channel order id uses the value obtained
\* earlier in that same actor's current execution, never a value obtained by
\* another actor or by a previous iteration.
C19_RequestsCarryOwnIds ==
    \A v \in VUs :
        /\ \A id \in vu[v].request :
              /\ id.kind # "none"
              /\ id.by = v
              /\ id.iteration = vu[v].iteration
        /\ vu[v].pc # "idle"
           => \A f \in DOMAIN vu[v].locals :
                 HasId(vu[v].locals[f])
                 => /\ vu[v].locals[f].by = v
                    /\ vu[v].locals[f].iteration = vu[v].iteration

\* two VUs, both in their second execution, are sending delivery callbacks
\* at the same time
C19_Witness ==
    \E v, w \in VUs :
        /\ v # w
        /\ vu[v].iteration = 2
        /\ vu[w].iteration = 2
        /\ vu[v].pc = "nextCallback"
        /\ vu[w].pc = "verifyPayment"
        /\ Cardinality(vu[v].request) = 3

\* a generator call has returned an order draft
DraftReturned == orderPayload # NoDto /\ ~orderPayload.isNull

ItemTaxAmount(itemTax) == itemTax.amount

\* the tax amounts the draft reports for one item, summed
ReportedItemTax(orderItem) == Sum([n \in DOMAIN orderItem.orderItemTax |-> ItemTaxAmount(orderItem.orderItemTax[n])])

\* the amounts the item reports under the tax id `id`
ReportedUnder(orderItem, id) ==
    LET Amt(itemTax) == IF itemTax.id = id THEN itemTax.amount ELSE 0
    IN Sum([n \in DOMAIN orderItem.orderItemTax |-> Amt(orderItem.orderItemTax[n])])

C22_TaxIsSumOfReportedItemTaxes ==
    DraftReturned =>
        /\ orderPayload.taxAmount = Sum([n \in DOMAIN orderPayload.orderItems |-> ReportedItemTax(orderPayload.orderItems[n])])
        /\ \A k \in DOMAIN orderPayload.orderTax :
              LET Under(orderItem) == ReportedUnder(orderItem, orderPayload.orderTax[k].id)
              IN orderPayload.orderTax[k].tax = Sum([n \in DOMAIN orderPayload.orderItems |-> Under(orderPayload.orderItems[n])])

\* the draft holds the 100.00 item and the 50.00 item, for delivery
TwoFixedItemsForDelivery ==
    /\ DraftReturned
    /\ Len(orderPayload.orderItems) = 2
    /\ {orderPayload.orderItems[i].id : i \in 1..2} = {"i100", "i50"}
    /\ orderPayload.orderType # "2"

FixedTotals ==
    /\ draftLocals.subtotal = Amount(150, 0)
    /\ orderPayload.taxAmount = Amount(7, 50)
    /\ orderPayload.grandTotalAmount = Amount(230, 60)

\* C23 as stated: a delivery draft of the two fixed items priced 100.00 and
\* 50.00 at 5 % always has subtotal 150.00, taxAmount 7.50 and grand total
\* 230.60.
C23_FixedTotalsAlways == TwoFixedItemsForDelivery => FixedTotals

\* C23: a delivery draft of the two fixed items priced 100.00 and 50.00 at
\* 5 %, each drawn with quantity 1, has subtotal 150.00, taxAmount 7.50 and
\* grand total 230.60 (150.00 + 7.50 + 53.10 + 20.00).
C23_FixedTotalsAtQuantityOne ==
    (/\ TwoFixedItemsForDelivery
     /\ \A i \in 1..2 : orderPayload.orderItems[i].quantity = 1)
    => FixedTotals

C23_Witness ==
    /\ TwoFixedItemsForDelivery
    /\ \A i \in 1..2 : orderPayload.orderItems[i].quantity = 1
    /\ orderPayload.orderItems[1].id = "i50"
    /\ orderPayload.orderType = "1"

\* C24: an order generator never fails: whatever the menu snapshot (absent,
\* without items) and the options, the call returns a complete order draft,
\* never null, with the default address id when none is supplied.
C24_GeneratorsReturnDraft ==
    orderPayload # NoDto =>
        /\ ~orderPayload.isNull
        /\ Len(orderPayload.orderItems) > 0
        /\ Truthy(orderPayload.deliveryDetails.addressId)

\* C30: the menu snapshot fetched in setup is read-only: after any number of
\* generated order drafts its items, their taxes and its tax summary are as
\* setup returned them.
C30_MenuSnapshotUnchanged == menuData = fetchedMenu

\* a draft of two items has just been drawn from the three-item menu
C30_Witness ==
    /\ DraftReturned
    /\ fetchedMenu = MixedMenu
    /\ Len(orderPayload.orderItems) = 2
    /\ orderPayload.orderItems[1].id = "i7"

\* C25: the status-update generator maps ACCEPTED to code '3' and
\* READY_FOR_DELIVERY to code '5', returns every other status name unchanged
\* in the status field, and orderID is always a string, the string form of
\* the order id.
C25_StatusCodesAndStringOrderId ==
    updateArgs # <<>> =>
        /\ updatePayload.status =
              (CASE updateArgs[3] = "ACCEPTED" -> "3"
                 [] updateArgs[3] = "READY_FOR_DELIVERY" -> "5"
                 [] OTHER -> updateArgs[3])
        /\ updatePayload.orderID.type = "string"
        /\ updatePayload.orderID.text = updateArgs[2].text
        /\ updatePayload.restID = updateArgs[1]

\* a numeric order id and a status the map does not know
C25_Witness ==
    /\ updateArgs # <<>>
    /\ updateArgs[2] = JsNumber(106335)
    /\ updateArgs[3] = "DELIVERED"
    /\ updatePayload.orderID = JsString("106335")
    /\ updatePayload.status = "DELIVERED"

\* the generator has been called
CallbackGenerated == callbackArgs # <<>>

NewLogEntry == generated.logs[Len(generated.logs)]

HasLocationAndTimestamp(part) == {"location", "timestamp"} \subseteq DOMAIN part

HasNeitherLocationNorTimestamp(part) == {"location", "timestamp"} \cap DOMAIN part = {}

PlaceOf(status) == CHOOSE i \in DOMAIN FULFILLMENT_SEQUENCE : FULFILLMENT_SEQUENCE[i] = status

\* C26: along any callback sequence that follows the fulfillment statuses
\* (CREATED, OUT_FOR_PICKUP, REACHED_PICKUP, PICKED_UP, OUT_FOR_DELIVERY,
\* REACHED_DELIVERY, DELIVERED), rider and location are present exactly for
\* the non-CREATED statuses; pickup location and timestamp are absent before
\* PICKED_UP and present in the PICKED_UP callback and in every later one;
\* drop location and timestamp are present only in the DELIVERED callback.
C26_FieldsUnlockAlongSequence ==
    CallbackGenerated =>
        LET status == callbackArgs.status
            fulfillment == generated.payload.fulfillment
        IN /\ ("rider" \in DOMAIN fulfillment) = (status # "CREATED")
           /\ ({"rider", "location"} \subseteq DOMAIN NewLogEntry) = (status # "CREATED")
           /\ ({"rider", "location"} \cap DOMAIN NewLogEntry = {}) = (status = "CREATED")
           /\ IF fulfillAt >= PlaceOf("PICKED_UP")
              THEN HasLocationAndTimestamp(fulfillment.pickup)
              ELSE HasNeitherLocationNorTimestamp(fulfillment.pickup)
           /\ IF status = "DELIVERED"
              THEN HasLocationAndTimestamp(fulfillment.drop)
              ELSE HasNeitherLocationNorTimestamp(fulfillment.drop)

\* C29: generateDeliveryCallback is append-only and leaves its input
\* unchanged: the returned logs are previousLogs followed by exactly one new
\* entry for the given status, the array passed as previousLogs is not
\* modified, the logs inside the returned payload are the returned logs, and
\* a caller that drops the result of a rejected callback still holds the
\* earlier history unmodified.
C29_AppendOnlyInputUnchanged ==
    CallbackGenerated =>
        /\ Len(generated.logs) = Len(callbackArgs.previousLogs) + 1
        /\ SubSeq(generated.logs, 1, Len(callbackArgs.previousLogs)) = callbackArgs.previousLogs
        /\ NewLogEntry.status = callbackArgs.status
        /\ passedLogs = callbackArgs.previousLogs
        /\ generated.payload.fulfillment.logs = generated.logs
        /\ heldLogs \in {callbackArgs.previousLogs, generated.logs}

\* a callback was rejected after two were accepted: the caller still holds
\* the two entries
C29_Witness ==
    /\ CallbackGenerated
    /\ Len(callbackArgs.previousLogs) = 2
    /\ Len(generated.logs) = 3
    /\ heldLogs = callbackArgs.previousLogs
    /\ callbackArgs.status = "REACHED_DELIVERY"

\* C27: the OTP mock's store is short-lived: whatever the sequence of send,
\* verify-by-mobile and reset requests, verify-by-mobile never accepts an OTP
\* that was issued more than 10 minutes before.
C27_StaleOtpNeverAccepted ==
    verifyAnswer.Status = "Success" => verifyAnswer.at - verifyAnswer.issued <= 10

\* the order POST of a followed flow was answered with a status other than 200
OrderPostRefused == flowPc # "idle" /\ flowOrderStatus \notin {-1, 200}

PaymentEndpoints == {"POST /payment", "POST /payment/verify"}

\* C28: in the user-journey, order-stress and stress order flows, when the
\* order POST returns a status other than 200, no payment create or payment
\* verify call is issued in that execution, whatever the response body
\* contains.
C28_NoPaymentAfterRefusedOrder ==
    OrderPostRefused =>
        \A i \in DOMAIN flowCalls : flowCalls[i].ep \notin PaymentEndpoints

\* the channel order ids found in the i-th callback sent: that of
\* fulfillment.channel and those of its log entries
SentChannelOrderIds(i) ==
    {sent[i].fulfillment.channel.order_id}
    \cup {SentLogs(i)[k].channel.order_id : k \in 1..Len(SentLogs(i))}

\* C33: all delivery callbacks sent by one workflow execution carry the same
\* delivery id (payload id) and the same channel order id (in
\* fulfillment.channel and in every log entry), and their reference_id and
\* dd_channel.order_id equal the order id returned by that execution's
\* CreateOrder.
C33_CallbacksCarrySameIds ==
    \A i \in 1..Len(sent) :
        /\ sent[i].id = sent[1].id
        /\ sent[i].id = JsString(deliveryId)
        /\ SentChannelOrderIds(i) = {NumberToString(channelOrderId)}
        /\ sent[i].reference_id = JsString(OrderIdOf(orderRes))
        /\ sent[i].dd_channel.order_id = JsString(OrderIdOf(orderRes))
        /\ orderRes.status = 200

\* all callbacks of the sequence were sent, one of them was rejected, and the
\* last one carries log entries of earlier callbacks
C33_Witness ==
    /\ Len(sent) = Len(DELIVERY_STATUS_SEQUENCE)
    /\ cbRes[2] = 500
    /\ Len(SentLogs(Len(sent))) > 2
    /\ channelOrderId = 999999
    /\ sent[Len(sent)].reference_id = JsString("o1")

\* the number of lifecycle_success_rate samples equal to 1
SuccessSamples ==
    Cardinality({i \in 1..Len(lifecycleSuccessRate) : lifecycleSuccessRate[i] = 1})

\* the number of executions that obtained an order id: the one execution
\* followed, once its orderId is set
ExecutionsWithOrderId == IF Truthy(orderId) THEN 1 ELSE 0

\* C34: in a lifecycle run, at every moment orders_delivered <=
\* orders_completed, the number of lifecycle_success_rate samples equal to 1
\* equals orders_delivered, and orders_completed equals the number of
\* executions that obtained an order id.
C34_CountersAgree ==
    /\ ordersDelivered <= ordersCompleted
    /\ SuccessSamples = ordersDelivered
    /\ ordersCompleted = ExecutionsWithOrderId

\* the delivery callbacks among the calls of the single-order execution
SingleCallbacks ==
    {i \in 1..Len(singleCalls) : singleCalls[i].ep = "POST /delivery/callback"}

\* Step 6 is over without a deliveryId
DeliveryIdNotObtained ==
    singlePc \in {"verifyDelivered", "done"} /\ ~Truthy(singleDeliveryId)

\* C31: in the single-order variant no delivery callback is issued unless the
\* GET /delivery/status/{orderId} returned 200 with a delivery order id; when the id is not obtained the step records
\* one failure sample, all callbacks are skipped, and the final 'Verify
\* Delivered' step is still executed.
C31_CallbacksNeedDeliveryId ==
    /\ SingleCallbacks # {}
         => /\ singleCalls[1].ep = "GET /delivery/status"
            /\ singleDeliveryRes.status = 200
            /\ singleDeliveryId \in DeliveryIds
            /\ DeliveryField(singleDeliveryRes.body, "deliveryOrderId", Undefined)
                 = singleDeliveryId
    /\ DeliveryIdNotObtained
         => /\ SingleCallbacks = {}
            /\ singleStepSuccess[1] = 0
            /\ Len(singleStepSuccess) = IF singlePc = "done" THEN 2 ELSE 1
            /\ singlePc = "done"
                 => singleCalls = <<Call("GET /delivery/status", SingleOrderId, ""),
                                    Call("GET /order", SingleOrderId, "")>>

\* the delivery record was not found and Step 7 ran
C31_Witness ==
    /\ singlePc = "done"
    /\ ~Truthy(singleDeliveryId)
    /\ Len(singleCalls) = 2
    /\ singleStepSuccess = <<0, 1>>

\* the traffic variants of a mixed-scenario test
VariantsOf(test) ==
    {VariantOf(test, <<"o1">>, action) : action \in RandomHundredths}

\* how many of the iterations run so far executed variant v
TimesRan(v) == Cardinality({i \in 1..Len(mixedRan) : mixedRan[i] = v})

\* the fixed iterations of the sanity scenario have all run
SanityRunOver ==
    mixedTest \in MixedTests /\ mixedIteration = SanityIterations(mixedTest)

\* C32: in sanity mode the fixed iterations of the mixed scenarios test each
\* traffic type once: the 4 iterations of the load test execute each of the
\* four traffic variants exactly once (5 iterations / five operations for
\* stress and menu-stress, 3 iterations / three tracking APIs for
\* tracking-stress).
C32_EachVariantOnce ==
    SanityRunOver => \A v \in VariantsOf(mixedTest) : TimesRan(v) = 1

\* the verify request of the current login stress iteration has been issued
VerifyOtpIssued ==
    \E i \in 1..Len(loginFlowCalls) : loginFlowCalls[i].ep = "POST /login/verify-otp"

\* C35: in the login stress flow, the OTP verify request is sent only after
\* the OTP request of the same iteration returned 200; when the OTP request
\* fails, no verify request is issued in that iteration.
C35_VerifyOnlyAfterOtpOk == VerifyOtpIssued => otpStatus = 200

\* the login stress VU is between two iterations
BetweenLoginIterations == loginFlowPc = "requestOtp"

\* C36: every login stress iteration records exactly one login_success_rate
\* sample and increments exactly one of logins_completed / logins_failed
\* exactly once, so after n finished iterations logins_completed +
\* logins_failed = n.
C36_OneSamplePerIteration ==
    BetweenLoginIterations =>
        /\ Len(loginFlowRate) = loginsFinished
        /\ loginsCompleted + loginsFailed = loginsFinished

\* how many samples the followed order flow added to `metric`
SamplesOf(metric) ==
    Cardinality({i \in 1..Len(flowSamples) : flowSamples[i].metric = metric})

\* an iteration of user-journey has finished
JourneyFinished == flow = "user-journey" /\ flowPc = "done"

\* C37: every user-journey iteration is counted exactly once: it records
\* exactly one journey_success_rate sample and increments exactly one of
\* journeys_completed / journeys_failed exactly once, so after n finished
\* iterations journeys_completed + journeys_failed = n.
C37_JourneyCountedOnce ==
    JourneyFinished =>
        /\ SamplesOf("journeySuccessRate") = 1
        /\ SamplesOf("journeysCompleted") + SamplesOf("journeysFailed") = 1

\* C38: in the stress scenario success_rate and error_rate are
\* complementary: every operation that adds a sample to one of them adds the
\* opposite sample to the other, so the two metrics always hold the same
\* number of samples and success_rate = 1 - error_rate on every path of
\* stressMenu, stressLogin, stressOrder, stressTracking and stressMixed.
C38_RatesComplementary ==
    /\ Len(successRate) = Len(errorRate)
    /\ \A i \in 1..Len(successRate) : successRate[i] = 1 - errorRate[i]

\* every one of the concurrent actors has taken its user
AllActorsStarted == userPool # <<>> /\ DOMAIN actorUser = 1..actors

\* C39: round-robin user assignment gives each concurrently running actor its
\* own user: for actor ids 1..N and a pool of size S >= N, getUserFromPool
\* maps distinct actor ids to distinct pool users with pairwise distinct
\* mobile numbers; with S < N at least two concurrent actors share one user.
C39_RoundRobinGivesOwnUser ==
    /\ Len(userPool) >= actors
         => \A v, w \in DOMAIN actorUser :
               v # w => /\ actorUser[v] # actorUser[w]
                        /\ actorUser[v].index # actorUser[w].index
                        /\ actorUser[v].mobile # actorUser[w].mobile
    /\ (AllActorsStarted /\ Len(userPool) < actors)
         => \E v, w \in DOMAIN actorUser : v # w /\ actorUser[v] = actorUser[w]

\* as many actors as users, all started: the last actor wraps around to the
\* first user of the pool
C39_Witness ==
    /\ AllActorsStarted
    /\ actors >= 3
    /\ Len(userPool) = actors
    /\ actorUser[actors].index = 0
    /\ actorUser[1].mobile = <<9, 8, 0, 0, 0, 0, 0, 0, 0, 1>>

====
